---- MODULE Spec2Model ----
(***************************************************************************)
(* drinks_bar (EX6): the atom inventory, the ADD and DELIVER parsers, the  *)
(* backing file and the handlers of the select loop that call them.        *)
(*                                                                         *)
(* uint64_t values do not fit TLC's integers, so a number is a triple of   *)
(* limbs <<hi, mid, lo>> standing for hi*Base^2 + mid*Base + lo with       *)
(* mid, lo < Base = 10^8.  The 64-bit operations reduce modulo 2^64.       *)
(***************************************************************************)
EXTENDS Integers, Sequences, FiniteSets, TLC

----------------------------------------------------------------------------
(* Unsigned 64-bit arithmetic                                              *)

Base == 10000 * 10000

Norm(h, m, l) ==
    LET m1 == m + (l \div Base)
    IN  << h + (m1 \div Base), m1 % Base, l % Base >>

ZeroN == << 0, 0, 0 >>
OneN == << 0, 0, 1 >>

\* 2^64 = 18446744073709551616
U64 == << 1844, 67440737, 9551616 >>
\* 2^63 = 9223372036854775808
U63 == << 922, 33720368, 54775808 >>
ULLONG_MAX == << 1844, 67440737, 9551615 >>

\* #define MAX_ATOMS ((uint64_t)1000000000000000000ULL)
MAX_ATOMS == << 100, 0, 0 >>

LtN(x, y) ==
    \/ x[1] < y[1]
    \/ x[1] = y[1] /\ x[2] < y[2]
    \/ x[1] = y[1] /\ x[2] = y[2] /\ x[3] < y[3]

LeqN(x, y) == x = y \/ LtN(x, y)

AddN(x, y) == Norm(x[1] + y[1], x[2] + y[2], x[3] + y[3])

\* x - y for y <= x
SubN(x, y) ==
    LET l  == x[3] - y[3]
        bl == IF l < 0 THEN 1 ELSE 0
        m  == x[2] - y[2] - bl
        bm == IF m < 0 THEN 1 ELSE 0
    IN  << x[1] - y[1] - bm, m + bm * Base, l + bl * Base >>

MulN(k, x) == Norm(k * x[1], k * x[2], k * x[3])

RECURSIVE ModN(_, _)
ModN(x, modulus) == IF LeqN(modulus, x) THEN ModN(SubN(x, modulus), modulus) ELSE x

\* uint64_t a + b
Add64(x, y) == ModN(AddN(x, y), U64)

\* uint64_t a - b
Sub64(x, y) == IF LeqN(y, x) THEN SubN(x, y) ELSE SubN(AddN(x, U64), y)

\* The product computed in int64_t instead of uint64_t.
Mul63(k, x) == ModN(MulN(k, x), U63)

\* kULL * count
Mul64(k, x) == ModN(MulN(k, x), U64)

\* uint64_t a / d for a small divisor d
DivN(x, d) ==
    LET r1 == x[1] % d
        m  == r1 * Base + x[2]
        r2 == m % d
        l  == r2 * Base + x[3]
    IN  << x[1] \div d, m \div d, l \div d >>

----------------------------------------------------------------------------
(* Characters, tokens and the C library conversions                        *)

Digits == { "0", "1", "2", "3", "4", "5", "6", "7", "8", "9" }

DigitVal(c) ==
    CASE c = "0" -> 0 [] c = "1" -> 1 [] c = "2" -> 2 [] c = "3" -> 3
      [] c = "4" -> 4 [] c = "5" -> 5 [] c = "6" -> 6 [] c = "7" -> 7
      [] c = "8" -> 8 [] c = "9" -> 9

DigitChar(d) ==
    CASE d = 0 -> "0" [] d = 1 -> "1" [] d = 2 -> "2" [] d = 3 -> "3"
      [] d = 4 -> "4" [] d = 5 -> "5" [] d = 6 -> "6" [] d = 7 -> "7"
      [] d = 8 -> "8" [] d = 9 -> "9"

\* isspace() characters that strtok_r's delimiter set " \t\r\n" leaves inside a token
SpaceChars == { "\f" }

RECURSIVE SkipSpace(_, _)
SkipSpace(tok, i) ==
    IF i <= Len(tok) /\ tok[i] \in SpaceChars THEN SkipSpace(tok, i + 1) ELSE i

RECURSIVE DigitRun(_, _)
\* index after the run of digits starting at i
DigitRun(tok, i) ==
    IF i <= Len(tok) /\ tok[i] \in Digits THEN DigitRun(tok, i + 1) ELSE i

\* acc * 10 + d for the one value acc of accs, or U64 (out of range) once it
\* no longer fits
NextDigit(accs, d) ==
    CHOOSE next \in { IF LeqN(U64, v) THEN U64 ELSE v :
                         v \in { IF acc = U64 THEN U64 ELSE AddN(MulN(10, acc), << 0, 0, d >>) :
                                    acc \in accs } } : TRUE

RECURSIVE Accumulate(_, _, _, _)
\* the value of tok[i..j-1], or U64 (out of range) once it no longer fits
Accumulate(tok, i, j, acc) ==
    IF i >= j THEN acc
    ELSE Accumulate(tok, i + 1, j, NextDigit({ acc }, DigitVal(tok[i])))

\* strtoull(tok, &endptr, 10): val, and endptr as an index into tok
\* (1 = tok itself, Len(tok) + 1 = the terminating '\0')
strtoull(tok) ==
    LET s    == SkipSpace(tok, 1)
        neg  == s <= Len(tok) /\ tok[s] = "-"
        d    == IF s <= Len(tok) /\ tok[s] \in { "+", "-" } THEN s + 1 ELSE s
        e    == DigitRun(tok, d)
        acc  == Accumulate(tok, d, e, ZeroN)
    IN  IF e = d THEN [ val |-> ZeroN, endptr |-> 1 ]
        ELSE IF acc = U64 THEN [ val |-> ULLONG_MAX, endptr |-> e ]
        ELSE [ val |-> IF neg THEN Sub64(ZeroN, acc) ELSE acc, endptr |-> e ]

RECURSIVE Pad(_, _)
\* the decimal digits of the limb n, zero-padded to w characters
Pad(n, w) == IF w = 0 THEN << >> ELSE Append(Pad(n \div 10, w - 1), DigitChar(n % 10))

RECURSIVE Strip(_)
Strip(s) == IF Len(s) > 1 /\ s[1] = "0" THEN Strip(Tail(s)) ELSE s

\* printf("%llu", x)
FormatLLU(x) == Strip(Pad(x[1], 8) \o Pad(x[2], 8) \o Pad(x[3], 8))

----------------------------------------------------------------------------
(* The words of the three protocols, as the character strings strcmp sees *)

ADD == << "A", "D", "D" >>
CARBON == << "C", "A", "R", "B", "O", "N" >>
OXYGEN == << "O", "X", "Y", "G", "E", "N" >>
HYDROGEN == << "H", "Y", "D", "R", "O", "G", "E", "N" >>
DELIVER == << "D", "E", "L", "I", "V", "E", "R" >>
WATER == << "W", "A", "T", "E", "R" >>
DIOXIDE == << "D", "I", "O", "X", "I", "D", "E" >>
GLUCOSE == << "G", "L", "U", "C", "O", "S", "E" >>
ALCOHOL == << "A", "L", "C", "O", "H", "O", "L" >>
GEN == << "G", "E", "N" >>
SOFT == << "S", "O", "F", "T" >>
DRINK == << "D", "R", "I", "N", "K" >>
VODKA == << "V", "O", "D", "K", "A" >>
CHAMPAGNE == << "C", "H", "A", "M", "P", "A", "G", "N", "E" >>

\* words and numbers a client may send that no protocol knows
NEON == << "N", "E", "O", "N" >>
FOO == << "F", "O", "O" >>
BAR == << "B", "A", "R" >>
HELIUM == << "H", "E", "L", "I", "U", "M" >>
EXTRA == << "E", "X", "T", "R", "A" >>
XYZ == << "x", "y", "z" >>

\* decimal literals
N0 == << "0" >>
N1 == << "1" >>
N2 == << "2" >>
N3 == << "3" >>
N5 == << "5" >>
N6 == << "6" >>
N12 == << "1", "2" >>
N1e18 == << "1", "0", "0", "0", "0", "0", "0", "0", "0", "0", "0", "0", "0", "0", "0", "0", "0", "0", "0" >>
N1e19 == << "1", "0", "0", "0", "0", "0", "0", "0", "0", "0", "0", "0", "0", "0", "0", "0", "0", "0", "0", "0" >>
NMinus1 == << "-", "1" >>
NMinus0 == << "-", "0" >>
NPlus5 == << "+", "5" >>
N12x == << "1", "2", "x" >>
N1e20 == N1e19 \o << "0" >>
NMinus2e64Plus1 == << "-" >> \o FormatLLU(ULLONG_MAX)
N8 == << "8" >>
N9 == << "9" >>
N14 == << "1", "4" >>
N20 == << "2", "0" >>
N24 == << "2", "4" >>
N27 == << "2", "7" >>
N60 == << "6", "0" >>

----------------------------------------------------------------------------
(* The inventory and the two parsers                                       *)

\* AtomStock
Stock(c, o, h) == [ carbon |-> c, oxygen |-> o, hydrogen |-> h ]

\* static AtomStock atom_stock = { 0, 0, 0 };
ZeroStock == Stock(ZeroN, ZeroN, ZeroN)

\* strtok_r's NULL
NULL == << >>

\* the i-th token strtok_r(.., " \t\r\n", ..) returns for the line, NULL past the last
Token(line, i) == IF i <= Len(line) THEN line[i] ELSE NULL

\* the delimiters of strtok_r(.., " \t\r\n", ..)
Delimiters == { " ", "\t", "\r", "\n" }

RECURSIVE TokensFrom(_, _, _)
\* the tokens of chars[i..], after the characters tok of the token in progress
TokensFrom(chars, i, tok) ==
    IF i > Len(chars) THEN (IF tok = << >> THEN << >> ELSE << tok >>)
    ELSE IF chars[i] \in Delimiters
    THEN (IF tok = << >> THEN << >> ELSE << tok >>) \o TokensFrom(chars, i + 1, << >>)
    ELSE TokensFrom(chars, i + 1, Append(tok, chars[i]))

\* the tokens the successive strtok_r calls return for the buffer
strtok_r(chars) == TokensFrom(chars, 1, << >>)

\* fgets and the strip of the trailing newline: linebuf[L-1] = '\0'
StripNewline(chars) ==
    IF Len(chars) > 0 /\ chars[Len(chars)] = "\n" THEN SubSeq(chars, 1, Len(chars) - 1)
    ELSE chars

RECURSIVE ConsoleTokensFrom(_, _, _)
\* the tokens of chars[i..] for the delimiters " \t" of the console
ConsoleTokensFrom(chars, i, tok) ==
    IF i > Len(chars) THEN (IF tok = << >> THEN << >> ELSE << tok >>)
    ELSE IF chars[i] \in { " ", "\t" }
    THEN (IF tok = << >> THEN << >> ELSE << tok >>) \o ConsoleTokensFrom(chars, i + 1, << >>)
    ELSE ConsoleTokensFrom(chars, i + 1, Append(tok, chars[i]))

\* the tokens the successive strtok(.., " \t") calls return for a console line
strtok(chars) == ConsoleTokensFrom(StripNewline(chars), 1, << >>)

\* the bytes of a line as the client writes it: "ADD CARBON 1\n"
Bytes(line) == line[1] \o << " " >> \o line[2] \o << " " >> \o line[3] \o << "\n" >>

\* snprintf(response, ..) of an error line
Error(text) == [ fmt |-> text, args |-> << >> ]

\* snprintf(response, .., fmt, carbon, oxygen, hydrogen) of a success line
Report(fmt, stock) ==
    [ fmt |-> fmt,
      args |-> << FormatLLU(stock.carbon), FormatLLU(stock.oxygen), FormatLLU(stock.hydrogen) >> ]

OK_ADD == "OK: Carbon=%llu Oxygen=%llu Hydrogen=%llu\n"
OK_DELIVER == "OK: Atoms left - Carbon=%llu Oxygen=%llu Hydrogen=%llu\n"

\* the result of a parser before its save: the stock it leaves, whether it
\* reached the mutation, the error line if it did not, and its locals
Rejected(stock, text, count, req) ==
    [ ok |-> FALSE, stock |-> stock, response |-> Error(text),
      count |-> count, req |-> req ]

\* a return before count and req_* are computed
Invalid(stock, text) == Rejected(stock, text, ZeroN, ZeroStock)

Applied(stock, count, req) ==
    [ ok |-> TRUE, stock |-> stock, response |-> Error(""),
      count |-> count, req |-> req ]

\* one case of the switch with the addition done before the check
AddCaseAddsFirst(current, val) ==
    [ ok |-> ~LtN(MAX_ATOMS, Add64(current, val)), value |-> Add64(current, val) ]

\* one case of the switch: if (current + val > MAX_ATOMS) error; current += val;
AddCase(current, val) ==
    IF LtN(MAX_ATOMS, Add64(current, val))
    THEN [ ok |-> FALSE, value |-> current ]
    ELSE [ ok |-> TRUE, value |-> Add64(current, val) ]

\* parse_and_update_tcp, from the strtok_r calls to the end of the switch
ParseAdd(stock, line) ==
    LET token_cmd  == Token(line, 1)
        token_type == Token(line, 2)
        token_num  == Token(line, 3)
        Checked(num) ==
            LET val == num.val
            IN  IF token_cmd = NULL \/ token_type = NULL \/ token_num = NULL
                THEN Invalid(stock, "ERROR: invalid command\n")
                ELSE IF token_cmd # ADD
                THEN Invalid(stock, "ERROR: invalid command\n")
                ELSE IF token_type \notin { CARBON, OXYGEN, HYDROGEN }
                THEN Invalid(stock, "ERROR: invalid atom type\n")
                ELSE IF num.endptr = 1 \/ num.endptr # Len(token_num) + 1
                THEN Invalid(stock, "ERROR: invalid number\n")
                ELSE IF LtN(MAX_ATOMS, val)
                THEN Invalid(stock, "ERROR: number too large\n")
                ELSE LET current == IF token_type = CARBON THEN stock.carbon
                                    ELSE IF token_type = OXYGEN THEN stock.oxygen
                                    ELSE stock.hydrogen
                         sum     == AddCase(current, val)
                         after   == IF token_type = CARBON THEN [ stock EXCEPT !.carbon = sum.value ]
                                    ELSE IF token_type = OXYGEN THEN [ stock EXCEPT !.oxygen = sum.value ]
                                    ELSE [ stock EXCEPT !.hydrogen = sum.value ]
                     IN  IF ~sum.ok
                         THEN Rejected(after, "ERROR: capacity exceeded\n", val, ZeroStock)
                         ELSE Applied(after, val, ZeroStock)
    IN  \* val = strtoull(token_num, &endptr, 10), converted once
        CHOOSE r \in { Checked(num) : num \in { strtoull(token_num) } } : TRUE

\* the table with the oxygen and hydrogen of WATER exchanged
RequiredWaterExchanged(full_mol, count) ==
    IF full_mol = "WATER"
    THEN Stock(ZeroN, Mul64(2, count), Mul64(1, count))
    ELSE IF full_mol = "CARBON DIOXIDE"
    THEN Stock(Mul64(1, count), Mul64(2, count), ZeroN)
    ELSE IF full_mol = "GLUCOSE"
    THEN Stock(Mul64(6, count), Mul64(6, count), Mul64(12, count))
    ELSE Stock(Mul64(2, count), Mul64(1, count), Mul64(6, count))

\* req_carbon, req_oxygen, req_hydrogen for count molecules of full_mol
Required(full_mol, count) ==
    IF full_mol = "WATER"
    THEN Stock(ZeroN, Mul64(1, count), Mul64(2, count))
    ELSE IF full_mol = "CARBON DIOXIDE"
    THEN Stock(Mul64(1, count), Mul64(2, count), ZeroN)
    ELSE IF full_mol = "GLUCOSE"
    THEN Stock(Mul64(6, count), Mul64(6, count), Mul64(12, count))
    ELSE Stock(Mul64(2, count), Mul64(1, count), Mul64(6, count))

\* the three checks written "<=" instead of "<"
ConsumeStrict(stock, count, req) ==
    IF LeqN(stock.carbon, req.carbon)
    THEN Rejected(stock, "ERROR: not enough carbon atoms\n", count, req)
    ELSE IF LeqN(stock.oxygen, req.oxygen)
    THEN Rejected(stock, "ERROR: not enough oxygen atoms\n", count, req)
    ELSE IF LeqN(stock.hydrogen, req.hydrogen)
    THEN Rejected(stock, "ERROR: not enough hydrogen atoms\n", count, req)
    ELSE Applied(Stock(Sub64(stock.carbon, req.carbon),
                       Sub64(stock.oxygen, req.oxygen),
                       Sub64(stock.hydrogen, req.hydrogen)), count, req)

\* the subtraction started before the oxygen and hydrogen checks
ConsumeCarbonFirst(stock, count, req) ==
    IF LtN(stock.carbon, req.carbon)
    THEN Rejected(stock, "ERROR: not enough carbon atoms\n", count, req)
    ELSE LET s1 == [ stock EXCEPT !.carbon = Sub64(stock.carbon, req.carbon) ]
         IN  IF LtN(stock.oxygen, req.oxygen)
             THEN Rejected(s1, "ERROR: not enough oxygen atoms\n", count, req)
             ELSE IF LtN(stock.hydrogen, req.hydrogen)
             THEN Rejected(s1, "ERROR: not enough hydrogen atoms\n", count, req)
             ELSE Applied(Stock(s1.carbon,
                                Sub64(stock.oxygen, req.oxygen),
                                Sub64(stock.hydrogen, req.hydrogen)), count, req)

\* the oxygen check made before the carbon check
ConsumeOxygenFirst(stock, count, req) ==
    IF LtN(stock.oxygen, req.oxygen)
    THEN Rejected(stock, "ERROR: not enough oxygen atoms\n", count, req)
    ELSE IF LtN(stock.carbon, req.carbon)
    THEN Rejected(stock, "ERROR: not enough carbon atoms\n", count, req)
    ELSE IF LtN(stock.hydrogen, req.hydrogen)
    THEN Rejected(stock, "ERROR: not enough hydrogen atoms\n", count, req)
    ELSE Applied(Stock(Sub64(stock.carbon, req.carbon),
                       Sub64(stock.oxygen, req.oxygen),
                       Sub64(stock.hydrogen, req.hydrogen)), count, req)

\* the three checks "if (atom_stock.x < req_x)" and then the three subtractions
Consume(stock, count, req) ==
    IF LtN(stock.carbon, req.carbon)
    THEN Rejected(stock, "ERROR: not enough carbon atoms\n", count, req)
    ELSE IF LtN(stock.oxygen, req.oxygen)
    THEN Rejected(stock, "ERROR: not enough oxygen atoms\n", count, req)
    ELSE IF LtN(stock.hydrogen, req.hydrogen)
    THEN Rejected(stock, "ERROR: not enough hydrogen atoms\n", count, req)
    ELSE Applied(Stock(Sub64(stock.carbon, req.carbon),
                       Sub64(stock.oxygen, req.oxygen),
                       Sub64(stock.hydrogen, req.hydrogen)), count, req)

\* parse_and_update_udp, from the strtok_r calls to the subtraction
ParseDeliver(stock, line) ==
    LET token_cmd  == Token(line, 1)
        token_mol  == Token(line, 2)
        two_words  == token_mol = CARBON
        token_next == Token(line, 3)
        full_mol   == IF token_mol = CARBON THEN "CARBON DIOXIDE"
                      ELSE IF token_mol = WATER THEN "WATER"
                      ELSE IF token_mol = GLUCOSE THEN "GLUCOSE"
                      ELSE IF token_mol = ALCOHOL THEN "ALCOHOL"
                      ELSE "?"
        n          == IF two_words THEN 4 ELSE 3
        token_num  == Token(line, n)
        token_extra == Token(line, n + 1)
        Checked(num) ==
            LET count == num.val
            IN  IF token_cmd = NULL \/ token_mol = NULL
                THEN Invalid(stock, "ERROR: invalid command\n")
                ELSE IF token_cmd # DELIVER
                THEN Invalid(stock, "ERROR: invalid command\n")
                ELSE IF two_words /\ (token_next = NULL \/ token_next # DIOXIDE)
                THEN Invalid(stock, "ERROR: invalid molecule type\n")
                ELSE IF full_mol = "?"
                THEN Invalid(stock, "ERROR: invalid molecule type\n")
                ELSE IF token_num = NULL
                THEN Invalid(stock, "ERROR: missing number\n")
                ELSE IF token_extra # NULL
                THEN Invalid(stock, "ERROR: too many arguments\n")
                ELSE IF num.endptr = 1 \/ num.endptr # Len(token_num) + 1
                THEN Invalid(stock, "ERROR: invalid number\n")
                ELSE IF LtN(MAX_ATOMS, count)
                THEN Invalid(stock, "ERROR: number too large\n")
                ELSE Consume(stock, count, Required(full_mol, count))
    IN  \* count = strtoull(token_num, &endptr, 10), converted once
        CHOOSE r \in { Checked(num) : num \in { strtoull(token_num) } } : TRUE

\* the count with the divisors of hydrogen and oxygen exchanged
CanMakeExchanged(stock, dc, dh, do) ==
    LET c  == DivN(stock.carbon, dc)
        h  == DivN(stock.hydrogen, do)
        o  == DivN(stock.oxygen, dh)
        m1 == IF LtN(h, c) THEN h ELSE c
    IN  IF LtN(o, m1) THEN o ELSE m1

\* min(carbon / dc, hydrogen / dh, oxygen / do) as the console computes it
CanMake(stock, dc, dh, do) ==
    LET c  == DivN(stock.carbon, dc)
        h  == DivN(stock.hydrogen, dh)
        o  == DivN(stock.oxygen, do)
        m1 == IF LtN(h, c) THEN h ELSE c
    IN  IF LtN(o, m1) THEN o ELSE m1

\* a console that answers GEN SOFT without DRINK like a line that is no command
ParseGenNoHint(stock, line) ==
    LET cmd         == Token(line, 1)
        drink       == Token(line, 2)
        maybe_drink == Token(line, 3)
    IN  IF cmd = NULL \/ cmd # GEN
        THEN Error("ERROR: invalid console command\n")
        ELSE IF drink = NULL
        THEN Error("ERROR: missing drink type after GEN\n")
        ELSE IF drink = SOFT
        THEN IF maybe_drink = NULL \/ maybe_drink # DRINK
             THEN Error("ERROR: invalid console command\n")
             ELSE [ fmt |-> "You can make up to %llu SOFT DRINK(s)\n",
                    args |-> << FormatLLU(CanMake(stock, 6, 14, 9)) >> ]
        ELSE IF drink = VODKA
        THEN [ fmt |-> "You can make up to %llu VODKA(s)\n",
               args |-> << FormatLLU(CanMake(stock, 8, 20, 8)) >> ]
        ELSE IF drink = CHAMPAGNE
        THEN [ fmt |-> "You can make up to %llu CHAMPAGNE(s)\n",
               args |-> << FormatLLU(CanMake(stock, 3, 9, 4)) >> ]
        ELSE [ fmt |-> "ERROR: unknown drink type '%s'\n", args |-> << drink >> ]

\* the console branch of the loop after fgets: strtok(linebuf, " \t") and the printf
ParseGen(stock, line) ==
    LET cmd         == Token(line, 1)
        drink       == Token(line, 2)
        maybe_drink == Token(line, 3)
    IN  IF cmd = NULL \/ cmd # GEN
        THEN Error("ERROR: invalid console command\n")
        ELSE IF drink = NULL
        THEN Error("ERROR: missing drink type after GEN\n")
        ELSE IF drink = SOFT
        THEN IF maybe_drink = NULL \/ maybe_drink # DRINK
             THEN Error("ERROR: did you mean 'GEN SOFT DRINK'?\n")
             ELSE [ fmt |-> "You can make up to %llu SOFT DRINK(s)\n",
                    args |-> << FormatLLU(CanMake(stock, 6, 14, 9)) >> ]
        ELSE IF drink = VODKA
        THEN [ fmt |-> "You can make up to %llu VODKA(s)\n",
               args |-> << FormatLLU(CanMake(stock, 8, 20, 8)) >> ]
        ELSE IF drink = CHAMPAGNE
        THEN [ fmt |-> "You can make up to %llu CHAMPAGNE(s)\n",
               args |-> << FormatLLU(CanMake(stock, 3, 9, 4)) >> ]
        ELSE [ fmt |-> "ERROR: unknown drink type '%s'\n", args |-> << drink >> ]

----------------------------------------------------------------------------
(* The backing file                                                        *)

\* no file at the path
Absent == [ exists |-> FALSE, full |-> FALSE, data |-> ZeroStock ]

\* a file of fewer than sizeof(AtomStock) bytes
Short == [ exists |-> TRUE, full |-> FALSE, data |-> ZeroStock ]

\* a file whose first sizeof(AtomStock) bytes are the image of stock
Image(stock) == [ exists |-> TRUE, full |-> TRUE, data |-> stock ]

\* load_atoms_from_file whose fread stops after the first counter
LoadCarbonOnly(f, stock, init) ==
    IF f.exists /\ f.full
    THEN [ stock |-> [ stock EXCEPT !.carbon = f.data.carbon ], file |-> f ]
    ELSE [ stock |-> init, file |-> Image(init) ]

\* load_atoms_from_file whose fread result is dropped
LoadKeepsMemory(f, stock, init) ==
    IF f.exists /\ f.full
    THEN [ stock |-> stock, file |-> f ]
    ELSE [ stock |-> init, file |-> Image(init) ]

\* load_atoms_from_file(path, init_c, init_o, init_h): the stock and the file it leaves
load_atoms_from_file(f, stock, init) ==
    IF f.exists /\ f.full
    THEN [ stock |-> f.data, file |-> f ]
    ELSE [ stock |-> init, file |-> Image(init) ]

\* save_atoms_to_file whose fwrite stops after the first counter
SaveFirstCounter(f, stock) == Image([ f.data EXCEPT !.carbon = stock.carbon ])

\* save_atoms_to_file that returns before the fwrite
SaveWritesNothing(f, stock) == f

\* save_atoms_to_file(path): fseek to 0 and fwrite of the whole struct
save_atoms_to_file(f, stock) == Image(stock)

----------------------------------------------------------------------------
(* Inputs                                                                  *)

\* the command lines of the servers: -c, -o, -h and whether -s and -d are given
Args ==
    { [ c |-> N0, o |-> N0, h |-> N0, uds_stream_path |-> FALSE, uds_dgram_path |-> FALSE ],
      [ c |-> N0, o |-> N5, h |-> N3, uds_stream_path |-> TRUE, uds_dgram_path |-> TRUE ],
      [ c |-> N12, o |-> N12, h |-> N12, uds_stream_path |-> TRUE, uds_dgram_path |-> TRUE ],
      [ c |-> NMinus1, o |-> NMinus1, h |-> NMinus1,
        uds_stream_path |-> TRUE, uds_dgram_path |-> TRUE ] }

\* what the file at the -f path holds when the first server starts
InitialFiles ==
    { Absent, Short,
      Image(Stock(<< 0, 0, 6 >>, << 0, 0, 6 >>, << 0, 0, 12 >>)),
      Image(Stock(ULLONG_MAX, ZeroN, MAX_ATOMS)) }

\* lines a stream client sends
AddLines ==
    { << ADD, CARBON, N1 >>, << ADD, CARBON, N1e18 >>, << ADD, OXYGEN, N1 >>,
      << ADD, HYDROGEN, N2 >>, << ADD, HYDROGEN, N1e18 >>,
      << ADD >>, << FOO, BAR, N1 >>, << ADD, NEON, N5 >>, << ADD, CARBON, XYZ >>,
      << ADD, OXYGEN, N1e19 >> }

\* datagrams a client sends
DeliverLines ==
    { << DELIVER, WATER, N0 >>, << DELIVER, WATER, N1 >>,
      << DELIVER, CARBON, DIOXIDE, N0 >>, << DELIVER, CARBON, DIOXIDE, N1 >>,
      << DELIVER, GLUCOSE, N0 >>, << DELIVER, GLUCOSE, N1 >>,
      << DELIVER, GLUCOSE, N1e18 >>,
      << DELIVER, ALCOHOL, N0 >>, << DELIVER, ALCOHOL, N1 >>,
      << DELIVER >>, << FOO, BAR, N1 >>, << DELIVER, HELIUM, N1 >>,
      << DELIVER, CARBON, N1 >>, << DELIVER, WATER >>,
      << DELIVER, WATER, N1, EXTRA >>, << DELIVER, WATER, XYZ >>,
      << DELIVER, WATER, N1e19 >> }

\* lines typed at the console
ConsoleLines ==
    { << GEN, SOFT, DRINK >>, << GEN, VODKA >>, << GEN, CHAMPAGNE >>,
      << >>, << GEN >>, << GEN, SOFT >>, << GEN, WATER >> }

\* the command lines and the lines of the servers that share a backing file
SharedArgs ==
    { [ c |-> N0, o |-> N5, h |-> N3, uds_stream_path |-> TRUE, uds_dgram_path |-> TRUE ] }
SharedAddLines == { << ADD, CARBON, N1 >>, << ADD, HYDROGEN, N2 >>, << ADD, NEON, N5 >> }
SharedDeliverLines == { << DELIVER, WATER, N1 >>, << DELIVER, HELIUM, N1 >> }
SharedConsoleLines == { << GEN, VODKA >> }

\* the peers of the TCP connections
Peers == { 1, 2 }

\* the server processes: one in Spec, both (on one backing file) in SpecShared
Servers == { 1, 2 }

\* commands dispatched in one run of one server
MaxCmds == 3

\* returns of recv on the TCP session whose byte stream is followed
MaxReads == 3

\* #define MAXBUF 1024
MAXBUF == 1024

\* the lines the peer of that session writes, one after the other
StreamLines == << << ADD, CARBON, N1 >>, << ADD, OXYGEN, N2 >>, << ADD, HYDROGEN, N3 >> >>

\* console lines typed in one run of the server whose GEN answers are checked
MaxGenCmds == 1

\* the command lines of that server: inventories around the divisors
GenArgs ==
    { [ c |-> c, o |-> o, h |-> h, uds_stream_path |-> FALSE, uds_dgram_path |-> FALSE ] :
          c \in { N0, N6, N24, N1e18 }, o \in { N0, N8, N9, N27 }, h \in { N0, N14, N20, N60 } }

\* commands dispatched in one run of the two servers that share a file
MaxSharedCmds == 2

\* the slots of the table of TCP clients
MAX_CLIENTS == 2

\* the value of -t when a timeout is configured, in seconds
TimeoutSecs == 2

\* returns of select in one run of the loop in detail
MaxWakeups == 3

\* descriptors one return of select reports ready
MaxReady == 2

\* the descriptors of the process: stdin, and the four sockets in the order
\* main creates them
STDIN_FILENO == 0
tcp_listen_fd == 3
udp_fd == 4
uds_stream_fd == 5
uds_dgram_fd == 6

\* the descriptors accept can return: the lowest numbers above the sockets
Fds == (uds_dgram_fd + 1) .. (uds_dgram_fd + 1 + MAX_CLIENTS)

----------------------------------------------------------------------------
(* State                                                                   *)

VARIABLES
    save_file_path,  \* the -f option: TRUE when a backing file is configured
    file,            \* the backing file
    pc,              \* pc[p]: where server p is: "start", "select" (blocked in
                     \* select), "save" (at the save inside the parser),
                     \* "dgram_save" (at the save after the parser, UDS_DGRAM),
                     \* "send" (at send / sendto / the end of the printf)
    atom_stock,      \* atom_stock[p]: the global of server p
    argv,            \* argv[p]: the command line of server p
    cur,             \* cur[p]: the descriptor being dispatched, its peer, buf
    parsed,          \* parsed[p]: the parser's locals count, req_* and whether
                     \* it reached the mutation
    response,        \* response[p]: the response buffer
    before,          \* before[p]: atom_stock[p] when the dispatch began
    evaluated,       \* evaluated[p]: atom_stock[p] as the parser found it
    saved,           \* saved[p]: the images this dispatch has written so far
    prev,            \* prev[p]: the exchange completed before this one
    seen,            \* seen[p]: the file when the dispatch began
    adds,            \* adds[p]: the quantities added since startup, while
                     \* every command so far was an accepted ADD
    cmds,            \* commands the run may still dispatch
    at,              \* where main is in its loop (SpecLoop): "init", "top" (at
                     \* the timed_out check), "fdset" (building read_fds),
                     \* "select" (blocked in select), "tcp_listen", "udp",
                     \* "clients", "stdin", "uds_stream", "uds_recv" (in recv on
                     \* the accepted UDS connection), "uds_dgram", "exit" (past
                     \* the loop), "done" (at return 0), "killed" (terminated
                     \* by a signal), "failed" (exit(EXIT_FAILURE) at startup)
    timeout_secs,    \* the -t option, 0 when absent
    timed_out,       \* the flag alarm_handler sets
    timer,           \* seconds until the pending alarm, 0 when none is pending
    idle,            \* seconds since the last dispatched activity
    client_fds,      \* the table of TCP client descriptors, -1 for a free slot
    open_fds,        \* the connection descriptors open in the process
    read_fds,        \* the set select returned
    slot,            \* the index i of the loop over client_fds in 10.3
    new_fd,          \* what the last accept returned
    uds_peer,        \* what the peer of the accepted UDS connection has done:
                     \* "silent", "sent" or "closed"
    reason,          \* why the loop was left: "none", "timeout" or "eof"
    sockets,         \* the descriptors main created with socket() that are open
    paths,           \* the UDS paths main has bound and not unlinked
    ports,           \* the -T and -U options as given, NULL when absent
    bound,           \* the ports main has bound a socket on
    wire,            \* the bytes the peer of a TCP session has written and
                     \* recv has not returned yet
    written,         \* the lines that peer has written so far
    io               \* the calls of the section that last found its descriptor
                     \* ready: the descriptor, the address recvfrom filled in,
                     \* the reads, the parser calls, where each reply went
                     \* and what send returned

\* the variables of the loop in detail
loopvars == << at, timeout_secs, timed_out, timer, idle, client_fds, open_fds,
               read_fds, slot, new_fd, uds_peer, reason, sockets, paths, io >>

\* the byte stream of one TCP session, and the ports of the process
streamvars == << wire, written, ports, bound >>

vars == << save_file_path, file, pc, atom_stock, argv, cur, parsed, response,
           before, evaluated, saved, prev, seen, adds, cmds, loopvars, streamvars >>

NoArgs == [ c |-> N0, o |-> N0, h |-> N0, uds_stream_path |-> FALSE, uds_dgram_path |-> FALSE ]
NoRequest == [ fd |-> "none", peer |-> 0, line |-> << >> ]
NoParse == [ ok |-> FALSE, count |-> ZeroN, req |-> ZeroStock ]
NoResponse == [ fmt |-> "", args |-> << >> ]
NoPrev == [ op |-> "none", peer |-> 0, before |-> ZeroStock, req |-> ZeroStock ]
NoAdds == [ pure |-> FALSE, boot |-> ZeroStock, sum |-> ZeroStock ]
NoCalls ==
    [ fd |-> "none", from |-> 0, reads |-> 0, parses |-> 0, replies |-> << >>,
      sent |-> "none" ]

InitServers ==
    /\ save_file_path \in BOOLEAN
    /\ file \in IF save_file_path THEN InitialFiles ELSE { Absent }
    /\ pc = [ p \in Servers |-> "start" ]
    /\ atom_stock = [ p \in Servers |-> ZeroStock ]
    /\ argv = [ p \in Servers |-> NoArgs ]
    /\ cur = [ p \in Servers |-> NoRequest ]
    /\ parsed = [ p \in Servers |-> NoParse ]
    /\ response = [ p \in Servers |-> NoResponse ]
    /\ before = [ p \in Servers |-> ZeroStock ]
    /\ evaluated = [ p \in Servers |-> ZeroStock ]
    /\ saved = [ p \in Servers |-> << >> ]
    /\ prev = [ p \in Servers |-> NoPrev ]
    /\ seen = [ p \in Servers |-> Absent ]
    /\ adds = [ p \in Servers |-> NoAdds ]
    /\ at = "init"
    /\ timeout_secs = 0
    /\ timed_out = FALSE
    /\ timer = 0
    /\ idle = 0
    /\ client_fds = [ n \in 1 .. MAX_CLIENTS |-> -1 ]
    /\ open_fds = { }
    /\ read_fds = { }
    /\ slot = 0
    /\ new_fd = -1
    /\ uds_peer = "silent"
    /\ reason = "none"
    /\ sockets = { }
    /\ paths = { }
    /\ io = NoCalls
    /\ wire = << >>
    /\ written = 0
    /\ ports = [ T |-> NULL, U |-> NULL ]
    /\ bound = { }

Init == InitServers /\ cmds = MaxCmds

\* two servers started on one backing file
InitShared == InitServers /\ save_file_path /\ cmds = MaxSharedCmds

----------------------------------------------------------------------------
(* Startup                                                                 *)

\* main up to the loop: getopt_long, then the -f load or the plain assignment
Start(p, args) ==
    /\ pc[p] = "start"
    /\ \E a \in args :
        LET init == Stock(strtoull(a.c).val, strtoull(a.o).val, strtoull(a.h).val)
            ld   == IF save_file_path
                    THEN load_atoms_from_file(file, atom_stock[p], init)
                    ELSE [ stock |-> init, file |-> file ]
        IN  /\ argv' = [ argv EXCEPT ![p] = a ]
            /\ atom_stock' = [ atom_stock EXCEPT ![p] = ld.stock ]
            /\ file' = ld.file
            /\ adds' = [ adds EXCEPT ![p] = [ pure |-> TRUE, boot |-> ld.stock, sum |-> ZeroStock ] ]
    /\ pc' = [ pc EXCEPT ![p] = "select" ]
    /\ UNCHANGED << save_file_path, cur, parsed, response, before, evaluated, saved,
                    prev, seen, cmds >>

----------------------------------------------------------------------------
(* The handlers of the loop                                                *)

\* the success line of the parser that serves descriptor fd
OkFormat(fd) == IF fd \in { "TCP", "UDS_STREAM" } THEN OK_ADD ELSE OK_DELIVER

\* the reload at the top of a parser left out
ReloadSkipped(f, stock) == [ stock |-> stock, file |-> f ]

\* if (save_file_path) load_atoms_from_file(save_file_path, 0, 0, 0);
Reload(f, stock) ==
    IF save_file_path THEN load_atoms_from_file(f, stock, ZeroStock)
    ELSE [ stock |-> stock, file |-> f ]

\* where a parser that fell through to its end goes with the save left out
AfterParseNoSave(fd, ok) ==
    IF save_file_path /\ fd = "UDS_DGRAM" THEN "dgram_save" ELSE "send"

\* where the dispatch continues when the parser has applied or rejected the line
AfterParse(fd, ok) ==
    IF ok /\ save_file_path THEN "save"
    ELSE IF save_file_path /\ fd = "UDS_DGRAM" THEN "dgram_save"
    ELSE "send"

\* one request read from fd and taken through reload and parse: extra is the
\* load the loop itself does before calling the handler; the stream descriptors
\* go to parse_and_update_tcp, the datagram ones to parse_and_update_udp
DispatchRead(p, fd, peer, line, extra, rest) ==
    LET l1 == IF extra THEN Reload(file, atom_stock[p])
              ELSE [ stock |-> atom_stock[p], file |-> file ]
        l2 == Reload(l1.file, l1.stock)
        r  == IF fd \in { "TCP", "UDS_STREAM" } THEN ParseAdd(l2.stock, line)
              ELSE ParseDeliver(l2.stock, line)
        to == AfterParse(fd, r.ok)
    IN  /\ pc[p] = "select"
        /\ cmds > 0
        /\ cmds' = cmds - 1
        /\ cur' = [ cur EXCEPT ![p] = [ fd |-> fd, peer |-> peer, line |-> line ] ]
        /\ before' = [ before EXCEPT ![p] = atom_stock[p] ]
        /\ seen' = [ seen EXCEPT ![p] = file ]
        /\ evaluated' = [ evaluated EXCEPT ![p] = l2.stock ]
        /\ atom_stock' = [ atom_stock EXCEPT ![p] = r.stock ]
        /\ file' = l2.file
        /\ parsed' = [ parsed EXCEPT ![p] = [ ok |-> r.ok, count |-> r.count, req |-> r.req ] ]
        /\ response' = [ response EXCEPT ![p] =
                           IF to = "save" THEN NoResponse
                           ELSE IF r.ok THEN Report(OkFormat(fd), r.stock)
                           ELSE r.response ]
        /\ pc' = [ pc EXCEPT ![p] = to ]
        /\ wire' = rest
        /\ UNCHANGED << save_file_path, argv, saved, prev, adds, loopvars, written, ports, bound >>

\* a dispatch that takes nothing from the byte stream that is followed
Dispatch(p, fd, peer, line, extra) == DispatchRead(p, fd, peer, line, extra, wire)

\* 10.3: a TCP client descriptor is ready and recv returns a line
HandleTcpClient(p, lines) ==
    \E peer \in Peers, line \in lines :
        Dispatch(p, "TCP", peer, line, FALSE)

\* 10.5: the UDS stream listener is ready: accept, load, handle_tcp_client, close
HandleUdsStream(p, lines) ==
    /\ argv[p].uds_stream_path
    /\ \E line \in lines :
        Dispatch(p, "UDS_STREAM", 0, line, TRUE)

\* 10.2: the UDP socket is ready and recvfrom returns a datagram
HandleUdp(p, lines) ==
    \E line \in lines :
        Dispatch(p, "UDP", 0, line, FALSE)

\* 10.6: the UDS datagram socket is ready and recvfrom returns a datagram
HandleUdsDgram(p, lines) ==
    /\ argv[p].uds_dgram_path
    /\ \E line \in lines :
        Dispatch(p, "UDS_DGRAM", 0, line, TRUE)

\* 10.4: stdin is ready and fgets returns a line
HandleConsole(p, lines) ==
    \E line \in lines :
        LET l == Reload(file, atom_stock[p])
        IN  /\ pc[p] = "select"
            /\ cmds > 0
            /\ cmds' = cmds - 1
            /\ cur' = [ cur EXCEPT ![p] = [ fd |-> "STDIN", peer |-> 0, line |-> line ] ]
            /\ before' = [ before EXCEPT ![p] = atom_stock[p] ]
            /\ seen' = [ seen EXCEPT ![p] = file ]
            /\ evaluated' = [ evaluated EXCEPT ![p] = l.stock ]
            /\ atom_stock' = [ atom_stock EXCEPT ![p] = l.stock ]
            /\ file' = l.file
            /\ response' = [ response EXCEPT ![p] = ParseGen(l.stock, line) ]
            /\ pc' = [ pc EXCEPT ![p] = "send" ]
            /\ UNCHANGED << save_file_path, argv, parsed, saved, prev, adds, loopvars, streamvars >>

\* the end of a parser: if (save_file_path) save_atoms_to_file(..); snprintf(OK ..)
SaveInParser(p) ==
    /\ pc[p] = "save"
    /\ file' = save_atoms_to_file(file, atom_stock[p])
    /\ saved' = [ saved EXCEPT ![p] = Append(@, file'.data) ]
    /\ response' = [ response EXCEPT ![p] = Report(OkFormat(cur[p].fd), atom_stock[p]) ]
    /\ pc' = [ pc EXCEPT ![p] = IF cur[p].fd = "UDS_DGRAM" THEN "dgram_save" ELSE "send" ]
    /\ UNCHANGED << save_file_path, atom_stock, argv, cur, parsed, before, evaluated,
                    prev, seen, adds, cmds,
                    loopvars, streamvars >>

\* 10.6 after the parser: if (save_file_path) save_atoms_to_file(save_file_path);
SaveAfterDgram(p) ==
    /\ pc[p] = "dgram_save"
    /\ file' = save_atoms_to_file(file, atom_stock[p])
    /\ saved' = [ saved EXCEPT ![p] = Append(@, file'.data) ]
    /\ pc' = [ pc EXCEPT ![p] = "send" ]
    /\ UNCHANGED << save_file_path, atom_stock, argv, cur, parsed, response, before,
                    evaluated, prev, seen, adds, cmds,
                    loopvars, streamvars >>

\* what adds[p] becomes when the exchange of cur[p] completes
AddsAfter(p) ==
    LET kind == Token(cur[p].line, 2)
        a    == adds[p]
    IN  IF a.pure /\ parsed[p].ok /\ cur[p].fd \in { "TCP", "UDS_STREAM" }
        THEN [ a EXCEPT !.sum =
                 IF kind = CARBON THEN [ @ EXCEPT !.carbon = AddN(@, parsed[p].count) ]
                 ELSE IF kind = OXYGEN THEN [ @ EXCEPT !.oxygen = AddN(@, parsed[p].count) ]
                 ELSE [ @ EXCEPT !.hydrogen = AddN(@, parsed[p].count) ] ]
        ELSE NoAdds

\* what prev[p] becomes when the exchange of cur[p] completes
PrevAfter(p) ==
    IF ~parsed[p].ok THEN NoPrev
    ELSE [ op |-> IF cur[p].fd \in { "TCP", "UDS_STREAM" } THEN "ADD" ELSE "DELIVER",
           peer |-> cur[p].peer, before |-> before[p], req |-> parsed[p].req ]

\* send / sendto of the response (for the console, the printf), and back to select
Send(p) ==
    /\ pc[p] = "send"
    /\ pc' = [ pc EXCEPT ![p] = "select" ]
    /\ prev' = [ prev EXCEPT ![p] = PrevAfter(p) ]
    /\ adds' = [ adds EXCEPT ![p] = AddsAfter(p) ]
    /\ cur' = [ cur EXCEPT ![p] = NoRequest ]
    /\ parsed' = [ parsed EXCEPT ![p] = NoParse ]
    /\ response' = [ response EXCEPT ![p] = NoResponse ]
    /\ before' = [ before EXCEPT ![p] = ZeroStock ]
    /\ evaluated' = [ evaluated EXCEPT ![p] = ZeroStock ]
    /\ saved' = [ saved EXCEPT ![p] = << >> ]
    /\ seen' = [ seen EXCEPT ![p] = Absent ]
    /\ UNCHANGED << save_file_path, file, atom_stock, argv, cmds, loopvars, streamvars >>

----------------------------------------------------------------------------
(* Specifications                                                          *)

\* one server
Next ==
    \/ Start(1, Args) /\ UNCHANGED << loopvars, streamvars >>
    \/ HandleTcpClient(1, AddLines)
    \/ HandleUdsStream(1, AddLines)
    \/ HandleUdp(1, DeliverLines)
    \/ HandleUdsDgram(1, DeliverLines)
    \/ HandleConsole(1, ConsoleLines)
    \/ SaveInParser(1)
    \/ SaveAfterDgram(1)
    \/ Send(1)

Spec == Init /\ [][Next]_vars

\* two servers on one backing file
NextShared ==
    \E p \in Servers :
        \/ Start(p, SharedArgs) /\ UNCHANGED << loopvars, streamvars >>
        \/ HandleTcpClient(p, SharedAddLines)
        \/ HandleUdsStream(p, SharedAddLines)
        \/ HandleUdp(p, SharedDeliverLines)
        \/ HandleUdsDgram(p, SharedDeliverLines)
        \/ HandleConsole(p, SharedConsoleLines)
        \/ SaveInParser(p)
        \/ SaveAfterDgram(p)
        \/ Send(p)

SpecShared == InitShared /\ [][NextShared]_vars

----------------------------------------------------------------------------
(* Vocabulary of the properties                                            *)

\* server p is inside the dispatch of a request
InFlight(p) == pc[p] \in { "save", "dgram_save", "send" }

\* server p is about to send the reply of the request cur[p]
Replying(p) == pc[p] = "send"

AddRequest(p) == cur[p].fd \in { "TCP", "UDS_STREAM" }
DeliverRequest(p) == cur[p].fd \in { "UDP", "UDS_DGRAM" }

AddErrors ==
    { "ERROR: invalid command\n", "ERROR: invalid atom type\n", "ERROR: invalid number\n",
      "ERROR: number too large\n", "ERROR: capacity exceeded\n" }

Insufficient ==
    { "ERROR: not enough carbon atoms\n", "ERROR: not enough oxygen atoms\n",
      "ERROR: not enough hydrogen atoms\n" }

\* the recipe table of the DELIVER grammar, by the first word of the molecule
RecipeTable(word) ==
    IF word = WATER THEN [ carbon |-> 0, oxygen |-> 1, hydrogen |-> 2 ]
    ELSE IF word = CARBON THEN [ carbon |-> 1, oxygen |-> 2, hydrogen |-> 0 ]
    ELSE IF word = GLUCOSE THEN [ carbon |-> 6, oxygen |-> 6, hydrogen |-> 12 ]
    ELSE [ carbon |-> 2, oxygen |-> 1, hydrogen |-> 6 ]

\* n times the recipe of the molecule of the line, as unbounded integers
Need(line, n) ==
    LET r == RecipeTable(Token(line, 2))
    IN  Stock(MulN(r.carbon, n), MulN(r.oxygen, n), MulN(r.hydrogen, n))

Covers(stock, need) ==
    /\ LeqN(need.carbon, stock.carbon)
    /\ LeqN(need.oxygen, stock.oxygen)
    /\ LeqN(need.hydrogen, stock.hydrogen)

Minus(stock, need) ==
    Stock(SubN(stock.carbon, need.carbon), SubN(stock.oxygen, need.oxygen),
          SubN(stock.hydrogen, need.hydrogen))

Plus(stock, more) ==
    Stock(AddN(stock.carbon, more.carbon), AddN(stock.oxygen, more.oxygen),
          AddN(stock.hydrogen, more.hydrogen))

\* the three counters a reply line reports, read back from its digits
Reported(r) ==
    Stock(strtoull(r.args[1]).val, strtoull(r.args[2]).val, strtoull(r.args[3]).val)

\* the DELIVER datagram passed every check of the grammar and reached the
\* stock checks
ReachedStockCheck(p) ==
    DeliverRequest(p) /\ (parsed[p].ok \/ response[p].fmt \in Insufficient)

----------------------------------------------------------------------------
(* C1  DELIVER is all-or-nothing                                           *)

\* C1: while a DELIVER is being handled and when its reply is sent, the
\* counters are either exactly those the dispatch started from (always so when
\* the reply is an error) or those with all three requirements deducted; the
\* images written to the file and the counters of the reply are the same triple.
C1_DeliverAllOrNothing ==
    \A p \in Servers :
        InFlight(p) /\ DeliverRequest(p) =>
            LET full == IF parsed[p].ok
                        THEN Minus(before[p], Need(cur[p].line, parsed[p].count))
                        ELSE before[p]
            IN  /\ atom_stock[p] = full
                /\ \A i \in 1 .. Len(saved[p]) : saved[p][i] = full
                /\ Replying(p) =>
                     IF parsed[p].ok
                     THEN response[p].fmt = OK_DELIVER /\ Reported(response[p]) = full
                     ELSE response[p].fmt # OK_DELIVER /\ response[p].args = << >>

\* a DELIVER of a molecule that needs carbon is refused for hydrogen although
\* the carbon and the oxygen would have sufficed
C1_Witness ==
    \E p \in Servers :
        /\ Replying(p) /\ DeliverRequest(p)
        /\ response[p].fmt = "ERROR: not enough hydrogen atoms\n"
        /\ Token(cur[p].line, 2) \in { GLUCOSE, ALCOHOL }
        /\ parsed[p].count # ZeroN

----------------------------------------------------------------------------
(* C2  the counters stay in [0, 10^18]                                     *)

InRange(stock) ==
    /\ LeqN(stock.carbon, MAX_ATOMS)
    /\ LeqN(stock.oxygen, MAX_ATOMS)
    /\ LeqN(stock.hydrogen, MAX_ATOMS)

\* C2: in every state of a started server each counter is at most 10^18.
C2_CountersInRange ==
    \A p \in Servers : pc[p] # "start" => InRange(atom_stock[p])

----------------------------------------------------------------------------
(* C3  ADD succeeds exactly when the sum fits                              *)

\* the line is ADD <recognized kind> <q> with q parsed and q <= 10^18
WellFormedAdd(line) ==
    /\ Len(line) >= 3
    /\ line[1] = ADD
    /\ line[2] \in { CARBON, OXYGEN, HYDROGEN }
    /\ strtoull(line[3]).endptr = Len(line[3]) + 1
    /\ LeqN(strtoull(line[3]).val, MAX_ATOMS)

\* q of the named kind and nothing of the other two
Quantity(line) ==
    LET q == strtoull(line[3]).val
    IN  Stock(IF line[2] = CARBON THEN q ELSE ZeroN,
              IF line[2] = OXYGEN THEN q ELSE ZeroN,
              IF line[2] = HYDROGEN THEN q ELSE ZeroN)

\* C3: a well-formed ADD of q is answered OK exactly when current + q <= 10^18
\* (as integers); then the named counter has grown by exactly q and the other
\* two are unchanged; otherwise the answer is 'capacity exceeded'.
C3_AddIffFits ==
    \A p \in Servers :
        Replying(p) /\ AddRequest(p) /\ WellFormedAdd(cur[p].line) =>
            LET sum == Plus(evaluated[p], Quantity(cur[p].line))
            IN  IF InRange(sum)
                THEN response[p].fmt = OK_ADD /\ atom_stock[p] = sum
                ELSE response[p].fmt = "ERROR: capacity exceeded\n"

\* the same for an inventory that is within [0, 10^18] when the ADD arrives
C3_AddIffFitsFromInRange ==
    \A p \in Servers :
        Replying(p) /\ AddRequest(p) /\ WellFormedAdd(cur[p].line) /\ InRange(evaluated[p]) =>
            LET sum == Plus(evaluated[p], Quantity(cur[p].line))
            IN  IF InRange(sum)
                THEN response[p].fmt = OK_ADD /\ atom_stock[p] = sum
                ELSE response[p].fmt = "ERROR: capacity exceeded\n"

----------------------------------------------------------------------------
(* C4  a rejected ADD changes nothing                                      *)

\* C4: the reply to an ADD is the OK line or one of the five ERROR lines, and
\* with an ERROR line all three counters are the ones the dispatch started from.
C4_RejectedAddChangesNothing ==
    \A p \in Servers :
        Replying(p) /\ AddRequest(p) =>
            \/ response[p].fmt = OK_ADD /\ parsed[p].ok
            \/ /\ response[p].fmt \in AddErrors
               /\ ~parsed[p].ok
               /\ atom_stock[p] = before[p]

\* an ADD refused for capacity by a counter that is not empty
C4_Witness ==
    \E p \in Servers :
        /\ Replying(p) /\ AddRequest(p)
        /\ response[p].fmt = "ERROR: capacity exceeded\n"
        /\ before[p] # ZeroStock

----------------------------------------------------------------------------
(* C5  accepted ADDs add up                                                *)

\* C5: while every command since startup was an accepted ADD, each counter
\* equals its value after startup plus the quantities added to it.
C5_AddsSumUp ==
    \A p \in Servers :
        pc[p] = "select" /\ adds[p].pure =>
            atom_stock[p] = Plus(adds[p].boot, adds[p].sum)

\* the same for a server whose counters were within [0, 10^18] after startup
C5_AddsSumUpFromInRange ==
    \A p \in Servers :
        pc[p] = "select" /\ adds[p].pure /\ InRange(adds[p].boot) =>
            atom_stock[p] = Plus(adds[p].boot, adds[p].sum)

----------------------------------------------------------------------------
(* C6  one inventory, sequential semantics                                 *)

\* the DELIVER being answered and the successful DELIVER before it together
\* need more hydrogen than there was, but no more carbon or oxygen
OverdrawsHydrogen(p) ==
    LET need  == Need(cur[p].line, parsed[p].count)
        both  == Plus(prev[p].req, need)
        stock == prev[p].before
    IN  /\ prev[p].op = "DELIVER"
        /\ ReachedStockCheck(p)
        /\ LeqN(both.carbon, stock.carbon)
        /\ LeqN(both.oxygen, stock.oxygen)
        /\ LtN(stock.hydrogen, both.hydrogen)

----------------------------------------------------------------------------
(* C7  what a successful DELIVER deducts                                   *)

----------------------------------------------------------------------------
(* C8  DELIVER of zero                                                     *)

ZeroDeliveries ==
    { << DELIVER, WATER, N0 >>, << DELIVER, CARBON, DIOXIDE, N0 >>,
      << DELIVER, GLUCOSE, N0 >>, << DELIVER, ALCOHOL, N0 >> }

\* C8: DELIVER <molecule> 0 is answered OK and leaves the three counters as
\* they were, whatever the inventory.
C8_DeliverZero ==
    \A p \in Servers :
        Replying(p) /\ DeliverRequest(p) /\ cur[p].line \in ZeroDeliveries =>
            /\ response[p].fmt = OK_DELIVER
            /\ atom_stock[p] = before[p]
            /\ Reported(response[p]) = before[p]

\* a glucose of zero asked of an empty inventory
C8_Witness ==
    \E p \in Servers :
        /\ Replying(p) /\ DeliverRequest(p)
        /\ cur[p].line = << DELIVER, GLUCOSE, N0 >>
        /\ before[p] = ZeroStock

----------------------------------------------------------------------------
(* C9  the required totals do not wrap                                     *)

\* C9: for every DELIVER that passes the quantity checks (count <= 10^18) the
\* totals req_carbon, req_oxygen, req_hydrogen the parser compares with the
\* stock are the products recipe * count as integers, each below 2^64.
C9_RequiredTotalsExact ==
    \A p \in Servers :
        InFlight(p) /\ ReachedStockCheck(p) =>
            LET need == Need(cur[p].line, parsed[p].count)
            IN  /\ LeqN(parsed[p].count, MAX_ATOMS)
                /\ parsed[p].req = need
                /\ LtN(need.carbon, U64) /\ LtN(need.oxygen, U64) /\ LtN(need.hydrogen, U64)

\* 10^18 glucose: the largest product, 12 * 10^18 hydrogen
C9_Witness ==
    \E p \in Servers :
        /\ Replying(p) /\ ReachedStockCheck(p)
        /\ cur[p].line = << DELIVER, GLUCOSE, N1e18 >>
        /\ parsed[p].req.hydrogen = << 1200, 0, 0 >>

----------------------------------------------------------------------------
(* C10  reload, parse/apply, save, reply                                   *)

----------------------------------------------------------------------------
(* C11  a snapshot survives the round trip through the file                *)

\* what a load of the file f would put in memory (over a zero inventory)
Reloaded(f) == load_atoms_from_file(f, ZeroStock, ZeroStock)

\* server p leaves its startup in this step, with a backing file configured
\* that already holds a whole snapshot
StartsFromSnapshot(p) ==
    /\ pc[p] = "start" /\ pc'[p] = "select"
    /\ save_file_path
    /\ file.exists /\ file.full

\* server p completes a save in this step
Saves(p) == pc[p] \in { "save", "dgram_save" } /\ pc'[p] # pc[p]

----------------------------------------------------------------------------
(* C12  the backing file absent or too small when it is consulted          *)

\* commands dispatched in one run of a server whose file can be lost
MaxLostCmds == 2

\* stat(path) fails at the next load: another process has removed the file
FileRemoved ==
    /\ save_file_path
    /\ pc[1] # "start"
    /\ file.exists
    /\ file' = Absent
    /\ UNCHANGED << save_file_path, pc, atom_stock, argv, cur, parsed, response, before,
                    evaluated, saved, prev, seen, adds, cmds,
                    loopvars, streamvars >>

\* st_size < sizeof(atom_stock) at the next load: another process has cut the file
FileCutShort ==
    /\ save_file_path
    /\ pc[1] # "start"
    /\ file.exists /\ file.full
    /\ file' = Short
    /\ UNCHANGED << save_file_path, pc, atom_stock, argv, cur, parsed, response, before,
                    evaluated, saved, prev, seen, adds, cmds,
                    loopvars, streamvars >>

InitLost == InitServers /\ save_file_path /\ cmds = MaxLostCmds

\* one server on a backing file that other processes can remove or cut
NextLost ==
    \/ Start(1, SharedArgs) /\ UNCHANGED << loopvars, streamvars >>
    \/ HandleTcpClient(1, SharedAddLines)
    \/ HandleUdsStream(1, SharedAddLines)
    \/ HandleUdp(1, SharedDeliverLines)
    \/ HandleUdsDgram(1, SharedDeliverLines)
    \/ HandleConsole(1, SharedConsoleLines)
    \/ SaveInParser(1)
    \/ SaveAfterDgram(1)
    \/ Send(1)
    \/ FileRemoved
    \/ FileCutShort

SpecLost == InitLost /\ [][NextLost]_vars

\* the values of -c, -o and -h of server p
InitialValues(p) ==
    Stock(strtoull(argv[p].c).val, strtoull(argv[p].o).val, strtoull(argv[p].h).val)

\* C12: a command that finds the file absent or shorter than one snapshot at
\* its reload is evaluated on the command-line initial values.
C12_LostFileGivesInitialValues ==
    \A p \in Servers :
        InFlight(p) /\ save_file_path /\ ~(seen[p].exists /\ seen[p].full) =>
            evaluated[p] = InitialValues(p)

\* what the code does instead: the command is evaluated on an all-zero inventory
C12_LostFileGivesZero ==
    \A p \in Servers :
        InFlight(p) /\ save_file_path /\ ~(seen[p].exists /\ seen[p].full) =>
            evaluated[p] = ZeroStock

\* at startup the absent or short file does give the command-line values, and
\* the file is written with them
C12_LostFileAtStartup ==
    [][\A p \in Servers :
          pc[p] = "start" /\ pc'[p] = "select" /\ save_file_path /\ ~(file.exists /\ file.full) =>
              atom_stock'[p] = InitialValues(p)' /\ file' = Image(atom_stock'[p])]_vars

----------------------------------------------------------------------------
(* C13  two servers on one file: a lost update                             *)

\* servers p and q are both about to reply OK to commands that were both
\* evaluated on the same contents of the file
BothAccepted(p, q) ==
    /\ p # q
    /\ Replying(p) /\ parsed[p].ok
    /\ Replying(q) /\ parsed[q].ok
    /\ seen[p] = seen[q]

\* C13: the save of a command is a whole write of the saving server's own
\* counters, not joined to its reload: when two servers accept commands
\* evaluated on the same snapshot, the file afterwards holds the counters of
\* exactly one of them, so if both changed the inventory the file does not hold
\* the sum of the two changes.
C13_LostUpdate ==
    \A p, q \in Servers :
        BothAccepted(p, q) =>
            /\ file.exists /\ file.full
            /\ file.data \in { atom_stock[p], atom_stock[q] }
            /\ atom_stock[p] # evaluated[p] /\ atom_stock[q] # evaluated[q] =>
                 Plus(file.data, evaluated[p]) # Plus(atom_stock[p], atom_stock[q])

\* both servers answer OK to an ADD, one of carbon and one of hydrogen, and
\* the file holds the later save only
C13_Witness ==
    \E p, q \in Servers :
        /\ BothAccepted(p, q)
        /\ AddRequest(p) /\ AddRequest(q)
        /\ atom_stock[p].carbon # evaluated[p].carbon
        /\ atom_stock[q].hydrogen # evaluated[q].hydrogen
        /\ file = Image(atom_stock[q])
        /\ file.data.carbon = evaluated[p].carbon

----------------------------------------------------------------------------
(* The select loop in detail                                               *)

\* the command line of the server whose loop is followed step by step, and
\* what its reads return: on a stream one line, or two lines in one read
LoopArgs ==
    { [ c |-> N0, o |-> N5, h |-> N3, uds_stream_path |-> TRUE, uds_dgram_path |-> TRUE ] }
LoopAddLines ==
    { << ADD, CARBON, N1e18 >>,
      strtok_r(Bytes(<< ADD, NEON, N5 >>) \o Bytes(<< ADD, CARBON, N1e18 >>)) }
LoopDeliverLines == { << DELIVER, WATER, N1 >>, << DELIVER, HELIUM, N1 >> }
LoopConsoleLines == { << GEN, VODKA >>, << FOO >> }

\* what accept returns: the lowest descriptor number not in use
LowestFree(opened) ==
    CHOOSE n \in Fds : n \notin opened /\ \A m \in Fds : m < n => m \in opened

\* the index of the first slot holding -1, or 0 when there is none
FirstEmpty(table) ==
    IF \E n \in 1 .. MAX_CLIENTS : table[n] = -1
    THEN CHOOSE n \in 1 .. MAX_CLIENTS :
             table[n] = -1 /\ \A m \in 1 .. n - 1 : table[m] # -1
    ELSE 0

\* a full table that keeps the descriptor open without a slot
StoreOrLeak(table, opened, fd) ==
    IF FirstEmpty(table) = 0
    THEN [ client_fds |-> table, open_fds |-> opened \cup { fd } ]
    ELSE [ client_fds |-> [ table EXCEPT ![FirstEmpty(table)] = fd ],
           open_fds |-> opened \cup { fd } ]

\* 10.1 after accept: store new_fd in the first empty slot, or close(new_fd)
StoreOrDrop(table, opened, fd) ==
    IF FirstEmpty(table) = 0
    THEN [ client_fds |-> table, open_fds |-> opened ]
    ELSE [ client_fds |-> [ table EXCEPT ![FirstEmpty(table)] = fd ],
           open_fds |-> opened \cup { fd } ]

\* a close that ends every session of the table
CloseEverySession(table, opened, n) ==
    [ client_fds |-> [ m \in 1 .. MAX_CLIENTS |-> -1 ],
      open_fds |-> opened \ { table[m] : m \in 1 .. MAX_CLIENTS } ]

\* close(fd) that leaves the slot as it is
CloseKeepsSlot(table, opened, n) ==
    [ client_fds |-> table, open_fds |-> opened \ { table[n] } ]

\* 10.3 when handle_tcp_client returns false: close(fd); client_fds[i] = -1;
CloseSession(table, opened, n) ==
    [ client_fds |-> [ table EXCEPT ![n] = -1 ], open_fds |-> opened \ { table[n] } ]

\* 10.5 with the accepted descriptor left open
KeepAccepted(opened, fd) == opened

\* 10.5 after handle_tcp_client: close(new_un_fd);
CloseAccepted(opened, fd) == opened \ { fd }

\* the end of a section with the alarm left as it is
NoRearm(secs, pending, fired) == [ timer |-> pending, timed_out |-> fired ]

\* if (timeout_secs > 0) { alarm(timeout_secs); timed_out = 0; }
Rearm(secs, pending, fired) ==
    IF secs > 0 THEN [ timer |-> secs, timed_out |-> FALSE ]
    ELSE [ timer |-> pending, timed_out |-> fired ]

\* a section whose descriptor was ready ends: the activity is counted and the
\* alarm reset
Activity ==
    /\ timer' = Rearm(timeout_secs, timer, timed_out).timer
    /\ timed_out' = Rearm(timeout_secs, timer, timed_out).timed_out
    /\ idle' = 0

\* a section whose descriptor was not ready
NoActivity == UNCHANGED << timer, timed_out, idle >>

\* the loads before the parse: the one at the top of the parser, after the
\* one the loop does itself when extra
ReloadAgain(l) == Reload(l.file, l.stock)
LoadsBeforeParse(extra) ==
    IF extra THEN ReloadAgain(Reload(file, atom_stock[1]))
    ELSE Reload(file, atom_stock[1])

\* handle_tcp_client calls parse_and_update_tcp, the datagram sections
\* parse_and_update_udp
ParseBy(fd, stock, line) ==
    IF fd \in { "TCP", "UDS_STREAM" } THEN ParseAdd(stock, line)
    ELSE ParseDeliver(stock, line)

\* the file after the save at the end of the parser
SavedInParser(f, r) ==
    IF r.ok /\ save_file_path THEN save_atoms_to_file(f, r.stock) ELSE f

\* the file after the save that follows the parser in 10.6
SavedAfterDgram(fd, f, r) ==
    IF fd = "UDS_DGRAM" /\ save_file_path THEN save_atoms_to_file(f, r.stock) ELSE f

\* the parse of the line on the reloaded inventory l, the saves and the response
ServeResult(fd, l, r) ==
    [ stock |-> r.stock,
      file |-> SavedAfterDgram(fd, SavedInParser(l.file, r), r),
      ok |-> r.ok,
      response |-> IF r.ok THEN Report(OkFormat(fd), r.stock) ELSE r.response ]

\* the parser is called once on the reloaded inventory
ServeFrom(fd, l, line) ==
    CHOOSE s \in { ServeResult(fd, l, r) : r \in { ParseBy(fd, l.stock, line) } } : TRUE

\* one command from the reload to the response, as Dispatch, SaveInParser and
\* SaveAfterDgram do it in turn: extra is the load the loop does itself
Serve(fd, line, extra) == ServeFrom(fd, LoadsBeforeParse(extra), line)

\* the state a served command leaves
Served(fd, line, extra) ==
    \E r \in { Serve(fd, line, extra) } :
        /\ atom_stock' = [ atom_stock EXCEPT ![1] = r.stock ]
        /\ file' = r.file
        /\ response' = [ response EXCEPT ![1] = r.response ]
        /\ cur' = [ cur EXCEPT ![1] = [ fd |-> fd, peer |-> 0, line |-> line ] ]
        /\ parsed' = [ parsed EXCEPT ![1].ok = r.ok ]

\* nothing of the inventory, the file or the last exchange changes
NotServed == UNCHANGED << atom_stock, file, response, cur, parsed >>

\* the addresses datagrams come from
Senders == { 1, 2 }

\* a reply addressed to the first sender whoever sent the datagram
ReplyToFirst(fd, addr) == << [ fd |-> fd, to |-> 1 ] >>

\* sendto(fd, response, .., &client_addr, addr_len): one datagram to the
\* address recvfrom filled in
ReplyTo(fd, addr) == << [ fd |-> fd, to |-> addr ] >>

\* a reply written twice
ReplyTwice(fd) == << [ fd |-> fd, to |-> fd ], [ fd |-> fd, to |-> fd ] >>

\* send(client_fd, response, ..): one write on the descriptor that was read
ReplyOn(fd) == << [ fd |-> fd, to |-> fd ] >>

\* a section has read once from fd and the read failed or met the end of the
\* stream: no parser call, no reply
ReadFailed(fd) ==
    io' = [ fd |-> fd, from |-> 0, reads |-> 1, parses |-> 0, replies |-> << >>,
            sent |-> "none" ]

\* a section has read once from fd, called the parser once and called send,
\* which returned sent
ReadAndReplied(fd, addr, replies, sent) ==
    io' = [ fd |-> fd, from |-> addr, reads |-> 1, parses |-> 1, replies |-> replies,
            sent |-> sent ]

\* a section has read once from fd, called the parser once and replied
ReadAndAnswered(fd, addr, replies) ==
    ReadAndReplied(fd, addr, replies, IF replies = << >> THEN "none" ELSE "sent")

\* what no step of the loop changes
LoopFrame ==
    UNCHANGED << save_file_path, pc, argv, before, evaluated, saved, prev, seen, adds,
                 sockets, paths, streamvars >>

\* the results of send on a stream socket: the bytes are queued, an error is
\* returned (perror), or the peer is gone and SIGPIPE, which main neither
\* ignores nor handles, terminates the process
SendResults == { "sent", "error", "SIGPIPE" }

\* the descriptors of sections 4 to 7 of main: TCP and UDP always, the UDS
\* ones when their option is given
SocketsOf(a) ==
    { tcp_listen_fd, udp_fd }
        \cup (IF a.uds_stream_path THEN { uds_stream_fd } ELSE { })
        \cup (IF a.uds_dgram_path THEN { uds_dgram_fd } ELSE { })

\* the paths bind() creates for them
PathsOf(a) ==
    (IF a.uds_stream_path THEN { "uds_stream_path" } ELSE { })
        \cup (IF a.uds_dgram_path THEN { "uds_dgram_path" } ELSE { })

\* main up to the loop, with the -t option: alarm(timeout_secs) when it is
\* positive; then the sockets are created and bound
LoopStart ==
    /\ at = "init"
    /\ Start(1, LoopArgs)
    /\ \E t \in { 0, TimeoutSecs } : timeout_secs' = t /\ timer' = t
    /\ sockets' = SocketsOf(argv'[1])
    /\ paths' = PathsOf(argv'[1])
    /\ at' = "top"
    /\ UNCHANGED << timed_out, idle, client_fds, open_fds, read_fds, slot, new_fd,
                    uds_peer, reason, io, streamvars >>

\* a loop top that leaves the loop whatever the flag says
BreaksAlways(flag) == TRUE

\* if (timed_out) { printf("TIMEOUT: ..."); break; }
Breaks(flag) == flag

\* the top of while (1): the break on timed_out, or a new iteration, whose
\* locals and read_fds start afresh
Top ==
    /\ at = "top"
    /\ IF Breaks(timed_out)
       THEN /\ at' = "exit" /\ reason' = "timeout"
            /\ UNCHANGED << read_fds, new_fd, cur, response, parsed, io >>
       ELSE /\ at' = "fdset" /\ read_fds' = { }
            /\ new_fd' = -1
            /\ io' = NoCalls
            /\ cur' = [ cur EXCEPT ![1] = NoRequest ]
            /\ response' = [ response EXCEPT ![1] = NoResponse ]
            /\ parsed' = [ parsed EXCEPT ![1] = NoParse ]
            /\ UNCHANGED reason
    /\ NoActivity /\ LoopFrame
    /\ UNCHANGED << atom_stock, file, cmds, timeout_secs, client_fds, open_fds, slot, uds_peer >>

\* the FD_SET calls are done and select is entered
EnterSelect ==
    /\ at = "fdset"
    /\ at' = "select"
    /\ NotServed /\ NoActivity /\ LoopFrame
    /\ UNCHANGED << cmds, timeout_secs, client_fds, open_fds, read_fds, slot, new_fd,
                    uds_peer, reason, io >>

\* the descriptors the FD_SET calls put in read_fds
Watched ==
    { STDIN_FILENO, tcp_listen_fd, udp_fd }
        \cup { client_fds[n] : n \in { m \in 1 .. MAX_CLIENTS : client_fds[m] # -1 } }
        \cup (IF argv[1].uds_stream_path THEN { uds_stream_fd } ELSE { })
        \cup (IF argv[1].uds_dgram_path THEN { uds_dgram_fd } ELSE { })

\* select returns with some of the watched descriptors ready
SelectReturns ==
    /\ at = "select"
    /\ cmds > 0
    /\ cmds' = cmds - 1
    /\ \E ready \in SUBSET Watched :
        /\ ready # { }
        /\ Cardinality(ready) <= MaxReady
        /\ read_fds' = ready
    /\ at' = "tcp_listen"
    /\ NotServed /\ NoActivity /\ LoopFrame
    /\ UNCHANGED << timeout_secs, client_fds, open_fds, slot, new_fd, uds_peer, reason, io >>

\* a second passes and the alarm, if one is pending, does not expire
Tick ==
    /\ timeout_secs > 0
    /\ at \notin { "init", "exit", "done", "killed" }
    /\ timer # 1
    /\ timer' = IF timer > 1 THEN timer - 1 ELSE 0
    /\ idle' = IF idle < TimeoutSecs THEN idle + 1 ELSE idle
    /\ NotServed /\ LoopFrame
    /\ UNCHANGED << cmds, at, timeout_secs, timed_out, client_fds, open_fds, read_fds,
                    slot, new_fd, uds_peer, reason, io >>

\* the alarm expires and alarm_handler runs; a select or a recv in progress
\* returns EINTR (sa_flags has no SA_RESTART)
Alarm ==
    /\ timeout_secs > 0
    /\ at \notin { "init", "exit", "done", "killed" }
    /\ timer = 1
    /\ IF at = "select"
       THEN /\ timed_out' = TRUE /\ timer' = 0
            /\ idle' = IF idle < TimeoutSecs THEN idle + 1 ELSE idle
            /\ at' = "top"
            /\ UNCHANGED << open_fds, uds_peer, io >>
       ELSE IF at = "uds_recv" /\ uds_peer = "silent"
       THEN /\ ReadFailed("UDS_STREAM")
            /\ timer' = Rearm(timeout_secs, 0, TRUE).timer
            /\ timed_out' = Rearm(timeout_secs, 0, TRUE).timed_out
            /\ idle' = 0
            /\ open_fds' = CloseAccepted(open_fds, new_fd)
            /\ at' = "uds_dgram"
            /\ UNCHANGED uds_peer
       ELSE /\ timed_out' = TRUE /\ timer' = 0
            /\ idle' = IF idle < TimeoutSecs THEN idle + 1 ELSE idle
            /\ UNCHANGED << at, open_fds, uds_peer, io >>
    /\ NotServed /\ LoopFrame
    /\ UNCHANGED << cmds, timeout_secs, client_fds, read_fds, slot, new_fd, reason >>

\* 10.1: the TCP listener
TcpListen ==
    /\ at = "tcp_listen"
    /\ IF tcp_listen_fd \in read_fds
       THEN /\ \E accepted \in BOOLEAN :
                 IF accepted
                 THEN LET fd == LowestFree(open_fds)
                          r  == StoreOrDrop(client_fds, open_fds, fd)
                      IN  /\ new_fd' = fd
                          /\ client_fds' = r.client_fds
                          /\ open_fds' = r.open_fds
                 ELSE new_fd' = -1 /\ UNCHANGED << client_fds, open_fds >>
            /\ Activity
       ELSE UNCHANGED << new_fd, client_fds, open_fds >> /\ NoActivity
    /\ at' = "udp"
    /\ NotServed /\ LoopFrame
    /\ UNCHANGED << cmds, timeout_secs, read_fds, slot, uds_peer, reason, io >>

\* 10.2: the UDP socket: recvfrom fails, or a datagram is parsed and answered
Udp ==
    /\ at = "udp"
    /\ IF udp_fd \in read_fds
       THEN /\ \/ NotServed /\ ReadFailed("UDP")
               \/ \E line \in LoopDeliverLines, addr \in Senders :
                     /\ Served("UDP", line, FALSE)
                     /\ ReadAndAnswered("UDP", addr, ReplyTo("UDP", addr))
            /\ Activity
       ELSE NotServed /\ NoActivity /\ UNCHANGED io
    /\ at' = "clients"
    /\ slot' = 1
    /\ LoopFrame
    /\ UNCHANGED << cmds, timeout_secs, client_fds, open_fds, read_fds, new_fd,
                    uds_peer, reason >>

\* i++ of the loop over client_fds, and on to 10.4 after the last slot
Advance ==
    IF slot = MAX_CLIENTS THEN at' = "stdin" /\ slot' = 0
    ELSE at' = "clients" /\ slot' = slot + 1

\* 10.3: one slot of the table: handle_tcp_client on a ready descriptor
Clients ==
    /\ at = "clients"
    /\ IF client_fds[slot] # -1 /\ client_fds[slot] \in read_fds
       THEN \/ /\ client_fds' = CloseSession(client_fds, open_fds, slot).client_fds
               /\ open_fds' = CloseSession(client_fds, open_fds, slot).open_fds
               /\ NotServed /\ Activity /\ Advance
               /\ ReadFailed("TCP")
            \/ \E line \in LoopAddLines, sent \in SendResults :
                  /\ Served("TCP", line, FALSE)
                  /\ ReadAndReplied("TCP", 0, ReplyOn(client_fds[slot]), sent)
                  /\ UNCHANGED << client_fds, open_fds >>
                  /\ IF sent = "SIGPIPE"
                     THEN at' = "killed" /\ UNCHANGED slot /\ NoActivity
                     ELSE Activity /\ Advance
       ELSE /\ UNCHANGED << client_fds, open_fds, io >>
            /\ NotServed /\ NoActivity /\ Advance
    /\ LoopFrame
    /\ UNCHANGED << cmds, timeout_secs, read_fds, new_fd, uds_peer, reason >>

\* 10.4: the console: the load, then fgets returns a line or NULL
StdinReads(lines) ==
    /\ at = "stdin"
    /\ IF STDIN_FILENO \in read_fds
       THEN LET l == Reload(file, atom_stock[1])
            IN  /\ atom_stock' = [ atom_stock EXCEPT ![1] = l.stock ]
                /\ file' = l.file
                /\ \/ /\ at' = "exit" /\ reason' = "eof"
                      /\ UNCHANGED << response, cur >>
                      /\ ReadFailed("STDIN")
                      /\ NoActivity
                   \/ /\ \E line \in lines :
                            /\ response' = [ response EXCEPT ![1] = ParseGen(l.stock, line) ]
                            /\ cur' = [ cur EXCEPT ![1] =
                                          [ fd |-> "STDIN", peer |-> 0, line |-> line ] ]
                      /\ ReadAndAnswered("STDIN", 0, << >>)
                      /\ at' = "uds_stream"
                      /\ UNCHANGED reason
                      /\ Activity
       ELSE /\ NotServed /\ NoActivity
            /\ at' = "uds_stream"
            /\ UNCHANGED << reason, io >>
    /\ UNCHANGED parsed
    /\ LoopFrame
    /\ UNCHANGED << cmds, timeout_secs, client_fds, open_fds, read_fds, slot, new_fd, uds_peer >>

\* 10.4 with the lines typed at the console of the loop followed in detail
Stdin == StdinReads(LoopConsoleLines)

\* 10.5: the UDS stream listener: accept, the load, and into handle_tcp_client
UdsStream ==
    /\ at = "uds_stream"
    /\ IF argv[1].uds_stream_path /\ uds_stream_fd \in read_fds
       THEN \/ /\ new_fd' = -1
               /\ NotServed /\ Activity
               /\ at' = "uds_dgram"
               /\ UNCHANGED << open_fds, uds_peer >>
            \/ LET l == Reload(file, atom_stock[1])
               IN  /\ new_fd' = LowestFree(open_fds)
                   /\ open_fds' = open_fds \cup { new_fd' }
                   /\ atom_stock' = [ atom_stock EXCEPT ![1] = l.stock ]
                   /\ file' = l.file
                   /\ uds_peer' \in { "silent", "sent", "closed" }
                   /\ at' = "uds_recv"
                   /\ UNCHANGED << response, cur, parsed >>
                   /\ NoActivity
       ELSE /\ NotServed /\ NoActivity
            /\ at' = "uds_dgram"
            /\ UNCHANGED << new_fd, open_fds, uds_peer >>
    /\ LoopFrame
    /\ UNCHANGED << cmds, timeout_secs, client_fds, read_fds, slot, reason, io >>

\* recv on the accepted UDS connection returns: the peer has closed, or has
\* sent a line that is parsed and answered; then close(new_un_fd)
UdsRecv ==
    /\ at = "uds_recv"
    /\ \/ /\ uds_peer = "closed"
          /\ ReadFailed("UDS_STREAM")
          /\ NotServed /\ Activity
          /\ open_fds' = CloseAccepted(open_fds, new_fd)
          /\ at' = "uds_dgram"
       \/ /\ uds_peer = "sent"
          /\ \E line \in LoopAddLines, sent \in SendResults :
                /\ Served("UDS_STREAM", line, FALSE)
                /\ ReadAndReplied("UDS_STREAM", 0, ReplyOn(new_fd), sent)
                /\ IF sent = "SIGPIPE"
                   THEN at' = "killed" /\ UNCHANGED open_fds /\ NoActivity
                   ELSE /\ Activity
                        /\ open_fds' = CloseAccepted(open_fds, new_fd)
                        /\ at' = "uds_dgram"
    /\ uds_peer' = "silent"
    /\ LoopFrame
    /\ UNCHANGED << cmds, timeout_secs, client_fds, read_fds, slot, new_fd, reason >>

\* the peer of the accepted UDS connection, silent so far, sends its line or closes
PeerActs ==
    /\ at = "uds_recv"
    /\ uds_peer = "silent"
    /\ uds_peer' \in { "sent", "closed" }
    /\ NotServed /\ NoActivity /\ LoopFrame
    /\ UNCHANGED << cmds, at, timeout_secs, client_fds, open_fds, read_fds, slot, new_fd,
                    reason, io >>

\* 10.6: the UDS datagram socket: recvfrom fails, or load, parse, save, sendto
UdsDgram ==
    /\ at = "uds_dgram"
    /\ IF argv[1].uds_dgram_path /\ uds_dgram_fd \in read_fds
       THEN /\ \/ NotServed /\ ReadFailed("UDS_DGRAM")
               \/ \E line \in LoopDeliverLines, addr \in Senders :
                     /\ Served("UDS_DGRAM", line, TRUE)
                     /\ ReadAndAnswered("UDS_DGRAM", addr, ReplyTo("UDS_DGRAM", addr))
            /\ Activity
       ELSE NotServed /\ NoActivity /\ UNCHANGED io
    /\ at' = "top"
    /\ LoopFrame
    /\ UNCHANGED << cmds, timeout_secs, client_fds, open_fds, read_fds, slot, new_fd,
                    uds_peer, reason >>

\* section 11: close() of the four sockets, unlink() of the two paths
CloseAll(table, opened) ==
    [ sockets |-> { }, open_fds |-> opened, paths |-> { } ]

\* 11: past the loop: the cleanup, up to return 0
Cleanup ==
    /\ at = "exit"
    /\ at' = "done"
    /\ sockets' = CloseAll(client_fds, open_fds).sockets
    /\ open_fds' = CloseAll(client_fds, open_fds).open_fds
    /\ paths' = CloseAll(client_fds, open_fds).paths
    /\ NotServed /\ NoActivity
    /\ UNCHANGED << save_file_path, pc, argv, before, evaluated, saved, prev, seen, adds >>
    /\ UNCHANGED << cmds, timeout_secs, client_fds, read_fds, slot, new_fd, uds_peer,
                    reason, io, streamvars >>

InitLoop == InitServers /\ file = Absent /\ cmds = MaxWakeups

NextLoop ==
    \/ LoopStart
    \/ Top
    \/ EnterSelect
    \/ SelectReturns
    \/ Tick
    \/ Alarm
    \/ TcpListen
    \/ Udp
    \/ Clients
    \/ Stdin
    \/ UdsStream
    \/ UdsRecv
    \/ PeerActs
    \/ UdsDgram
    \/ Cleanup

\* one server, every step of its loop
SpecLoop == InitLoop /\ [][NextLoop]_vars

\* the steps main takes by itself: every step but the return of select and
\* the peer's, which wait for a client, and the passing of time
ProgramStep ==
    \/ LoopStart
    \/ Top
    \/ EnterSelect
    \/ TcpListen
    \/ Udp
    \/ Clients
    \/ Stdin
    \/ UdsStream
    \/ UdsRecv
    \/ UdsDgram
    \/ Cleanup

\* the same loop where main keeps running and time keeps passing
SpecLoopFair == SpecLoop /\ WF_vars(ProgramStep) /\ WF_vars(Tick \/ Alarm)

----------------------------------------------------------------------------
(* C14  the table of sessions                                              *)

\* C14: every slot of client_fds holds -1 or a descriptor that is open, and no
\* descriptor is in two slots.
C14_SessionTable ==
    \A n \in 1 .. MAX_CLIENTS :
        \/ client_fds[n] = -1
        \/ /\ client_fds[n] \in open_fds
           /\ \A m \in 1 .. MAX_CLIENTS : m # n => client_fds[m] # client_fds[n]

\* the first slot freed by a close while the second holds a session
C14_Witness ==
    /\ client_fds[1] = -1
    /\ client_fds[MAX_CLIENTS] # -1
    /\ open_fds # { }

----------------------------------------------------------------------------
(* C15  a connection when the table is full                                *)

\* no slot of the table is free
Full(table) == FirstEmpty(table) = 0

\* C15: when section 10.1 runs with the listener ready and no free slot, the
\* table and the open descriptors are after it what they were before (the
\* accepted descriptor is closed at once), the inventory is untouched and the
\* loop goes on to section 10.2.
C15_FullTableDrops ==
    [][at = "tcp_listen" /\ at' # at /\ tcp_listen_fd \in read_fds /\ Full(client_fds) =>
          /\ client_fds' = client_fds
          /\ open_fds' = open_fds
          /\ new_fd' \notin open_fds'
          /\ atom_stock' = atom_stock /\ file' = file
          /\ at' = "udp"]_vars

\* section 10.1 has just accepted a connection that found no slot
C15_Witness ==
    /\ at = "udp"
    /\ tcp_listen_fd \in read_fds
    /\ Full(client_fds)
    /\ new_fd \in Fds
    /\ new_fd \notin open_fds

----------------------------------------------------------------------------
(* C16  no per-request error ends the server                               *)

\* C16: the server is never terminated by what happens on one request or one
\* descriptor.
C16_NoRequestEndsTheServer == at # "killed"

\* where the loop is after a section when nothing has ended it, and "killed"
SurvivingPlaces ==
    { "udp", "clients", "stdin", "uds_stream", "uds_recv", "uds_dgram", "top", "killed" }

\* the errors that main does survive: after a section whose descriptor was
\* ready, whatever recv, recvfrom, accept and the parsers returned, the loop
\* is at its next section unless send raised SIGPIPE or the console closed
C16_OtherErrorsSurvived ==
    [][(at \in { "tcp_listen", "udp", "clients", "uds_stream", "uds_dgram" } /\ at' # at)
          => (at' \in SurvivingPlaces)]_vars

----------------------------------------------------------------------------
(* C17  no handler waits for a client                                      *)

\* C17: main is never inside a handler waiting for data a client has not sent.
C17_NoHandlerWaits == ~(at = "uds_recv" /\ uds_peer = "silent")

----------------------------------------------------------------------------
(* C18  the timeout ends the server                                        *)

\* C18: once the alarm has fired, either a dispatched activity discards it or
\* the server leaves the loop.
C18_TimeoutShutsDown ==
    timed_out ~> (at \in { "exit", "done", "killed" } \/ ~timed_out)

\* an alarm that fires while main is blocked in select does bring it back to
\* the timed_out check
C18_FiredDuringWait ==
    [][at = "select" /\ ~timed_out /\ timed_out' => at' = "top"]_vars

----------------------------------------------------------------------------
(* C19  activity resets the timeout                                        *)

\* C19: with a timeout configured, after every dispatched activity one alarm
\* is pending, set to expire timeout_secs after that activity, and no fired
\* alarm is left unnoticed; so the loop is left for a timeout only when
\* timeout_secs have passed since the last dispatched activity.
C19_ActivityRearms ==
    timeout_secs > 0 /\ at # "init" =>
        /\ IF timer > 0 THEN ~timed_out /\ idle + timer = timeout_secs
           ELSE idle = timeout_secs
        /\ timed_out => timer = 0
        /\ reason = "timeout" => idle >= timeout_secs

\* the loop left for a timeout after at least one return of select
C19_Witness ==
    /\ reason = "timeout"
    /\ at = "exit"
    /\ cmds < MaxWakeups

----------------------------------------------------------------------------
(* C20  leaving the loop                                                   *)

\* C20: the loop is left only from its top with timed_out set or from the
\* console section with stdin ready; the step that leaves it changes neither
\* the inventory, the file, the table, the open descriptors nor the response;
\* and after it the only step is the cleanup, which parses nothing, accepts
\* nothing and answers nothing, whatever read_fds still holds.
C20_ShutdownIsFinal ==
    /\ [][at' = "exit" /\ at # "exit" =>
             /\ \/ at = "top" /\ timed_out /\ reason' = "timeout"
                \/ at = "stdin" /\ STDIN_FILENO \in read_fds /\ reason' = "eof"
             /\ UNCHANGED << atom_stock, file, client_fds, open_fds, response, cur >>]_vars
    /\ [][at = "exit" =>
             /\ at' = "done"
             /\ UNCHANGED << atom_stock, file, client_fds, new_fd, read_fds, response,
                             cur, parsed >>]_vars
    /\ [][at # "done"]_vars

\* the console closed while a datagram on the UDS socket was ready
C20_Witness ==
    /\ at = "exit"
    /\ reason = "eof"
    /\ uds_dgram_fd \in read_fds

----------------------------------------------------------------------------
(* C22  a connection on the UDS stream listener                            *)

\* the descriptors held in client_fds
InTable == { client_fds[n] : n \in 1 .. MAX_CLIENTS } \ { -1 }

\* C22: the descriptor accept returns in section 10.5 is not put in client_fds;
\* the section ends with at most one line of that connection parsed, and that
\* by the ADD parser, with the descriptor closed and the table as it was; so
\* outside the section every open connection is one of client_fds, and what
\* select reports ready is a socket, stdin or a descriptor of client_fds.
C22_UdsStreamOneShot ==
    /\ [][at = "uds_stream" /\ at' = "uds_recv" =>
             /\ new_fd' \in open_fds' /\ new_fd' \notin InTable'
             /\ client_fds' = client_fds
             /\ cur' = cur]_vars
    /\ [][at = "uds_recv" /\ at' = "uds_dgram" =>
             /\ new_fd \notin open_fds'
             /\ client_fds' = client_fds
             /\ \/ cur' = cur /\ atom_stock' = atom_stock
                \/ /\ cur'[1].fd = "UDS_STREAM"
                   /\ \E line \in LoopAddLines :
                         /\ cur'[1].line = line
                         /\ atom_stock'[1] = ParseAdd(atom_stock[1], line).stock]_vars
    /\ [](at \notin { "uds_recv", "killed" } => open_fds = InTable)
    /\ [][at = "select" /\ at' = "tcp_listen" =>
             read_fds' \cap Fds \subseteq InTable]_vars

\* section 10.5 has served a line and closed the connection while a TCP
\* session stays in the table
C22_Witness ==
    /\ at = "uds_dgram"
    /\ cur[1].fd = "UDS_STREAM"
    /\ parsed[1].ok
    /\ new_fd \in Fds /\ new_fd \notin open_fds
    /\ InTable # { }

----------------------------------------------------------------------------
(* C23  one datagram, one parse, one reply                                 *)

\* the section of the datagram socket fd runs with fd ready
DatagramDispatch(fd) ==
    \/ fd = "UDP" /\ at = "udp" /\ at' # at /\ udp_fd \in read_fds
    \/ fd = "UDS_DGRAM" /\ at = "uds_dgram" /\ at' # at /\ uds_dgram_fd \in read_fds

\* the section that follows the one of fd
AfterSection(fd) == IF fd = "UDP" THEN "clients" ELSE "top"

\* C23: a section that finds its datagram socket ready calls recvfrom once;
\* when that fails no parser runs, nothing is sent and inventory and file
\* stay as they are; otherwise the DELIVER parser runs once on the datagram
\* and one reply goes to the address recvfrom filled in; either way the loop
\* goes on to the next section.
C23_OneDatagramOneReply ==
    [][\A fd \in { "UDP", "UDS_DGRAM" } : DatagramDispatch(fd) =>
          /\ io'.fd = fd /\ io'.reads = 1
          /\ at' = AfterSection(fd)
          /\ \/ /\ io'.parses = 0 /\ io'.replies = << >>
                /\ atom_stock' = atom_stock /\ file' = file
                /\ response' = response
             \/ /\ io'.parses = 1
                /\ io'.from \in Senders
                /\ io'.replies = << [ fd |-> fd, to |-> io'.from ] >>
                /\ cur'[1].fd = fd
                /\ \E line \in LoopDeliverLines :
                      /\ cur'[1].line = line
                      /\ atom_stock'[1] =
                            ParseDeliver(Reload(file, atom_stock[1]).stock, line).stock]_vars

\* a datagram from the second sender has been delivered on and answered
C23_Witness ==
    /\ at = "clients"
    /\ io.fd = "UDP" /\ io.from = 2 /\ io.parses = 1
    /\ parsed[1].ok
    /\ atom_stock[1] # Stock(ZeroN, << 0, 0, 5 >>, << 0, 0, 3 >>)

\* recvfrom on the UDS datagram socket has failed
C23_ReceiveError ==
    /\ at = "top"
    /\ io.fd = "UDS_DGRAM" /\ io.parses = 0

----------------------------------------------------------------------------
(* C24  the console changes nothing                                        *)

\* server p takes a line from its console in this step
ConsoleStep(p) == pc[p] = "select" /\ cur'[p].fd = "STDIN"

\* C24: the step that processes a console line leaves the counters and the
\* backing file as they were.
C24_ConsoleChangesNothing ==
    [][\A p \in Servers : ConsoleStep(p) => atom_stock'[p] = atom_stock[p] /\ file' = file]_vars

\* what does hold: the GEN branches themselves assign nothing; the step
\* changes counters and file only through the load of line 976, so not at
\* all without -f, and not when the file holds the image of the counters
C24_ConsoleChangesOnlyByReload ==
    [][\A p \in Servers : ConsoleStep(p) =>
          /\ atom_stock'[p] = Reload(file, atom_stock[p]).stock
          /\ file' = Reload(file, atom_stock[p]).file
          /\ (~save_file_path \/ file = Image(atom_stock[p])) =>
                 atom_stock'[p] = atom_stock[p] /\ file' = file]_vars

----------------------------------------------------------------------------
(* C21  the cleanup                                                        *)

\* the descriptors of client_fds that are still open
OpenSessions ==
    { client_fds[n] : n \in { m \in 1 .. MAX_CLIENTS : client_fds[m] # -1 } } \cap open_fds

\* C21: when main returns, the four sockets are closed, the paths it bound are
\* unlinked, and no descriptor of an occupied slot of client_fds is open.
C21_CleanupClosesEverything ==
    at = "done" => sockets = { } /\ paths = { } /\ OpenSessions = { }

\* what the cleanup does close and remove: the sockets main created and the
\* paths it bound
C21_CleanupClosesSockets ==
    /\ at = "done" => sockets = { } /\ paths = { }
    /\ at \notin { "init", "done" } => sockets = SocketsOf(argv[1]) /\ paths = PathsOf(argv[1])

----------------------------------------------------------------------------
(* C25  what GEN reports                                                   *)

InitGen == InitServers /\ ~save_file_path /\ cmds = MaxGenCmds

NextGen ==
    \/ Start(1, GenArgs) /\ UNCHANGED << loopvars, streamvars >>
    \/ HandleConsole(1, ConsoleLines)
    \/ Send(1)

\* one server without a backing file, and its console
SpecGen == InitGen /\ [][NextGen]_vars

\* n = min(floor(carbon / dc), floor(hydrogen / dh), floor(oxygen / do)), said
\* with products: n of the drink fit in the stock and n + 1 do not
IsMinOfFloors(n, stock, dc, dh, do) ==
    /\ LeqN(MulN(dc, n), stock.carbon)
    /\ LeqN(MulN(dh, n), stock.hydrogen)
    /\ LeqN(MulN(do, n), stock.oxygen)
    /\ \/ LtN(stock.carbon, MulN(dc, AddN(n, OneN)))
       \/ LtN(stock.hydrogen, MulN(dh, AddN(n, OneN)))
       \/ LtN(stock.oxygen, MulN(do, AddN(n, OneN)))

\* the number the console printed
Printed(p) == strtoull(response[p].args[1]).val

\* the console of server p is answering the line: GEN and these words
Answering(p, words) ==
    /\ Replying(p)
    /\ cur[p].fd = "STDIN"
    /\ cur[p].line = << GEN >> \o words

----------------------------------------------------------------------------
(* C26  several ADD lines on one TCP connection                            *)

\* the peer writes its next line on the connection
PeerWrites ==
    /\ pc[1] # "start"
    /\ written < Len(StreamLines)
    /\ written' = written + 1
    /\ wire' = wire \o Bytes(StreamLines[written + 1])
    /\ UNCHANGED << ports, bound >>
    /\ UNCHANGED << save_file_path, file, pc, atom_stock, argv, cur, parsed, response,
                    before, evaluated, saved, prev, seen, adds, cmds, loopvars >>

\* recv(client_fd, buf, sizeof(buf)-1, 0): how many of the bytes waiting it
\* may return
Returned(chars) == { n \in 1 .. Len(chars) : n <= MAXBUF - 1 }

\* 10.3 on that session: recv returns some of the bytes waiting, and
\* handle_tcp_client hands them to the parser as one line
RecvStream ==
    /\ wire # << >>
    /\ \E n \in Returned(wire) :
          DispatchRead(1, "TCP", 1, strtok_r(SubSeq(wire, 1, n)), FALSE,
                       SubSeq(wire, n + 1, Len(wire)))

InitStream == InitServers /\ file = Absent /\ cmds = MaxReads

NextStream ==
    \/ Start(1, LoopArgs) /\ UNCHANGED << loopvars, streamvars >>
    \/ PeerWrites
    \/ RecvStream
    \/ SaveInParser(1)
    \/ Send(1)

\* one server and one TCP client that writes the lines of StreamLines
SpecStream == InitStream /\ [][NextStream]_vars

\* the client has written all its lines and the server has read and answered
\* all the bytes
StreamDone ==
    /\ written = Len(StreamLines)
    /\ wire = << >>
    /\ pc[1] = "select"

\* the inventory at startup plus the quantities of StreamLines
StreamTotal ==
    Stock(Add64(InitialValues(1).carbon, strtoull(StreamLines[1][3]).val),
          Add64(InitialValues(1).oxygen, strtoull(StreamLines[2][3]).val),
          Add64(InitialValues(1).hydrogen, strtoull(StreamLines[3][3]).val))

\* C26: when the client has written ADD CARBON 1, ADD OXYGEN 2 and ADD
\* HYDROGEN 3 on one connection and the server has consumed every byte, the
\* inventory is the initial one plus (1, 2, 3), wherever recv cut the stream.
C26_AllAddsApplied == StreamDone => atom_stock[1] = StreamTotal

\* what does hold: when three reads consumed the stream and each was an
\* accepted ADD, all three quantities are in the inventory
C26_AppliedWhenReadOneByOne ==
    StreamDone /\ adds[1].pure /\ cmds = MaxReads - Len(StreamLines) =>
        atom_stock[1] = StreamTotal

\* the three lines read one by one and applied
C26_ReadOneByOne ==
    /\ StreamDone /\ adds[1].pure /\ cmds = MaxReads - Len(StreamLines)
    /\ atom_stock[1] = StreamTotal

----------------------------------------------------------------------------
(* C27  the TCP and UDP ports                                              *)

\* the largest port number
MaxPort == 65535

\* sizeof(tcp_port_str) - 1: the characters snprintf keeps
PortStrLen == 5

N5555 == << "5", "5", "5", "5" >>
N65535 == << "6", "5", "5", "3", "5" >>
N65536 == << "6", "5", "5", "3", "6" >>
N70000 == << "7", "0", "0", "0", "0" >>
N100000 == << "1", "0", "0", "0", "0", "0" >>

\* what -T and -U may be given as; NULL is the option left out
PortOptions == { NULL, N0, NMinus1, XYZ, N1, N5555, N65535, N65536, N70000, N100000 }

\* the int held in the limbs of a number below Base^2
IntOf(n) == n[2] * Base + n[3]

\* atoi(optarg), for digit strings that fit an int
atoi(tok) ==
    LET s   == SkipSpace(tok, 1)
        neg == s <= Len(tok) /\ tok[s] = "-"
        d   == IF s <= Len(tok) /\ tok[s] \in { "+", "-" } THEN s + 1 ELSE s
        e   == DigitRun(tok, d)
        v   == IntOf(Accumulate(tok, d, e, ZeroN))
    IN  IF e = d THEN 0 ELSE IF neg THEN 0 - v ELSE v

\* int tcp_port = -1; ... case 'T': tcp_port = atoi(optarg);
PortValue(opt) == IF opt = NULL THEN -1 ELSE atoi(opt)

\* if (tcp_port <= 0 || udp_port <= 0) { ...; exit(EXIT_FAILURE); }
PortRefused(port) == port <= 0

\* snprintf(tcp_port_str, sizeof(tcp_port_str), "%d", tcp_port) for a positive port
PortString(port) ==
    LET digits == FormatLLU(<< 0, 0, port >>)
    IN  SubSeq(digits, 1, IF Len(digits) > PortStrLen THEN PortStrLen ELSE Len(digits))

\* getaddrinfo(NULL, service, ..) for a string of digits: the port of the
\* addresses it returns.  Above 65535 the C library decides: glibc keeps the
\* low 16 bits (htons), others fail with EAI_SERVICE, written -1
getaddrinfo(service) ==
    LET v == IntOf(strtoull(service).val)
    IN  IF v <= MaxPort THEN { v } ELSE { v % (MaxPort + 1), -1 }

\* main from getopt_long to the bind of the UDP socket, for given -T and -U
StartPorts ==
    /\ at = "init"
    /\ \E T \in PortOptions, U \in PortOptions :
          /\ ports' = [ T |-> T, U |-> U ]
          /\ IF PortRefused(PortValue(T)) \/ PortRefused(PortValue(U))
             THEN at' = "failed" /\ bound' = { }
             ELSE \E t \in getaddrinfo(PortString(PortValue(T))),
                     u \in getaddrinfo(PortString(PortValue(U))) :
                       IF t = -1 THEN at' = "failed" /\ bound' = { }
                       ELSE IF u = -1
                       THEN at' = "failed" /\ bound' = { << "TCP", t >> }
                       ELSE at' = "top" /\ bound' = { << "TCP", t >>, << "UDP", u >> }
    /\ UNCHANGED << save_file_path, file, pc, atom_stock, argv, cur, parsed, response,
                    before, evaluated, saved, prev, seen, adds, cmds >>
    /\ UNCHANGED << timeout_secs, timed_out, timer, idle, client_fds, open_fds, read_fds,
                    slot, new_fd, uds_peer, reason, sockets, paths, io, wire, written >>

InitPorts == InitServers /\ ~save_file_path /\ cmds = 0

\* the startup of one server for every pair of -T and -U
SpecPorts == InitPorts /\ [][StartPorts]_vars

\* the option is left out or is not a number of 1 .. 65535
BadPort(opt) == opt = NULL \/ atoi(opt) < 1 \/ atoi(opt) > MaxPort

\* startup is over, one way or the other
Started == at # "init"

\* C27: when -T or -U is missing or outside 1 .. 65535, main exits with a
\* failure and has bound no socket.
C27_BadPortIsFatal ==
    Started /\ (BadPort(ports.T) \/ BadPort(ports.U)) => at = "failed" /\ bound = { }

\* what does hold: a port that is missing or not positive ends main before
\* any socket, and two ports of 1 .. 65535 are the two that get bound
C27_NonPositivePortIsFatal ==
    /\ Started /\ (PortValue(ports.T) <= 0 \/ PortValue(ports.U) <= 0) =>
            at = "failed" /\ bound = { }
    /\ Started /\ ~BadPort(ports.T) /\ ~BadPort(ports.U) =>
            /\ at = "top"
            /\ bound = { << "TCP", atoi(ports.T) >>, << "UDP", atoi(ports.U) >> }

----------------------------------------------------------------------------
(* C28  one read, one parse, one reply on a session                        *)

\* section 10.3 runs for a slot whose descriptor is ready
SessionDispatch ==
    /\ at = "clients"
    /\ client_fds[slot] # -1
    /\ client_fds[slot] \in read_fds
    /\ << at, slot >>' # << at, slot >>

----------------------------------------------------------------------------
(* C29  the order of the checks of an ADD line                             *)

MaxOrderCmds == 2

\* the command lines of the server whose validation is followed: inventories
\* within [0, 10^18]
OrderArgs ==
    { [ c |-> N0, o |-> N0, h |-> N0, uds_stream_path |-> FALSE, uds_dgram_path |-> FALSE ],
      [ c |-> N1e18, o |-> N5, h |-> N3, uds_stream_path |-> FALSE, uds_dgram_path |-> FALSE ] }

\* lines of a stream client that fail one check, several checks or none
AddOrderLines ==
    { << >>, << FOO >>, << ADD, NEON >>, << FOO, NEON, XYZ >>,
      << ADD, NEON, XYZ >>, << ADD, NEON, N1e19 >>,
      << ADD, CARBON, XYZ >>, << ADD, CARBON, N12x >>,
      << ADD, CARBON, N1e19 >>, << ADD, CARBON, N1e20 >>,
      << ADD, CARBON, N1e18 >>, << ADD, CARBON, N1 >>, << ADD, HYDROGEN, N2 >>,
      << ADD, OXYGEN, NMinus1 >>, << ADD, OXYGEN, NMinus0 >>,
      << ADD, OXYGEN, NPlus5 >>, << ADD, OXYGEN, NMinus2e64Plus1 >> }

\* datagrams that fail one check, several checks or none
DeliverOrderLines ==
    { << >>, << FOO >>, << DELIVER >>, << FOO, HELIUM, XYZ, EXTRA >>,
      << DELIVER, HELIUM >>, << DELIVER, HELIUM, XYZ, EXTRA >>,
      << DELIVER, CARBON >>, << DELIVER, CARBON, N1 >>, << DELIVER, CARBON, WATER, N1 >>,
      << DELIVER, WATER >>, << DELIVER, CARBON, DIOXIDE >>,
      << DELIVER, WATER, XYZ, EXTRA >>, << DELIVER, CARBON, DIOXIDE, N1e19, EXTRA >>,
      << DELIVER, WATER, XYZ >>, << DELIVER, WATER, N12x >>,
      << DELIVER, WATER, N1e19 >>, << DELIVER, GLUCOSE, N1e20 >>,
      << DELIVER, WATER, N1 >>, << DELIVER, GLUCOSE, N1 >>, << DELIVER, CARBON, DIOXIDE, N1 >>,
      << DELIVER, WATER, NMinus1 >>, << DELIVER, WATER, NMinus0 >>,
      << DELIVER, WATER, NPlus5 >>, << DELIVER, WATER, NMinus2e64Plus1 >> }

InitOrder == InitServers /\ ~save_file_path /\ cmds = MaxOrderCmds

NextOrder ==
    \/ Start(1, OrderArgs) /\ UNCHANGED << loopvars, streamvars >>
    \/ HandleTcpClient(1, AddOrderLines)
    \/ HandleUdp(1, DeliverOrderLines)
    \/ Send(1)

\* one server without a backing file, its stream clients and its datagrams
SpecOrder == InitOrder /\ [][NextOrder]_vars

\* a token that is an unsigned decimal integer: digits and nothing else
IsUnsigned(tok) == tok # << >> /\ \A i \in 1 .. Len(tok) : tok[i] \in Digits

\* the unsigned decimal integer tok is above 10^18, the smallest number of 19 digits
Above1e18(tok) == Len(Strip(tok)) > 19 \/ (Len(Strip(tok)) = 19 /\ Strip(tok) # N1e18)

\* the quantity of a token that is an unsigned integer of at most 10^18
QuantityOf(tok) == strtoull(tok).val

\* the answer to an ADD line when the checks are made in the order of the
\* claim and the first failing one decides
AddAnswer(stock, line) ==
    IF Len(line) < 3 THEN "ERROR: invalid command\n"
    ELSE IF line[1] # ADD THEN "ERROR: invalid command\n"
    ELSE IF line[2] \notin { CARBON, OXYGEN, HYDROGEN } THEN "ERROR: invalid atom type\n"
    ELSE IF ~IsUnsigned(line[3]) THEN "ERROR: invalid number\n"
    ELSE IF Above1e18(line[3]) THEN "ERROR: number too large\n"
    ELSE IF LtN(MAX_ATOMS,
                AddN(IF line[2] = CARBON THEN stock.carbon
                     ELSE IF line[2] = OXYGEN THEN stock.oxygen ELSE stock.hydrogen,
                     QuantityOf(line[3])))
    THEN "ERROR: capacity exceeded\n"
    ELSE OK_ADD

\* an ADD line has been parsed and its reply is ready
AddAnswered == cur[1].fd = "TCP" /\ pc[1] = "send"

\* C29: the reply to an ADD line is the error of the first failing check in
\* the order: fewer than three tokens, first token not ADD, unknown kind,
\* quantity not an unsigned integer, quantity above 10^18, sum above 10^18;
\* and the success line when no check fails.
C29_AddChecksInOrder ==
    AddAnswered => response[1].fmt = AddAnswer(evaluated[1], cur[1].line)

\* what does hold: the same order when the quantity is an unsigned integer or
\* does not start with a sign
C29_UnsignedChecksInOrder ==
    AddAnswered /\ (Len(cur[1].line) < 3 \/ cur[1].line[3][1] \notin { "+", "-" }) =>
        response[1].fmt = AddAnswer(evaluated[1], cur[1].line)

\* lines failing several checks have been answered with the earliest error
C29_SeveralFail ==
    /\ AddAnswered
    /\ cur[1].line = << ADD, NEON, N1e19 >>
    /\ response[1] = Error("ERROR: invalid atom type\n")

\* ADD OXYGEN -1 has been answered
C29_SignedQuantity ==
    /\ AddAnswered
    /\ cur[1].line = << ADD, OXYGEN, NMinus1 >>
    /\ response[1] = Error("ERROR: number too large\n")

\* ADD OXYGEN -18446744073709551615 has added one oxygen
C29_SignedQuantityAdded ==
    /\ AddAnswered
    /\ cur[1].line = << ADD, OXYGEN, NMinus2e64Plus1 >>
    /\ response[1].fmt = OK_ADD
    /\ atom_stock[1].oxygen = Add64(evaluated[1].oxygen, << 0, 0, 1 >>)

----------------------------------------------------------------------------
(* C30  the order of the checks of a DELIVER line                          *)

\* the replies of the checks that follow the validation of the line
AfterValidation ==
    { "ERROR: not enough carbon atoms\n", "ERROR: not enough oxygen atoms\n",
      "ERROR: not enough hydrogen atoms\n", OK_DELIVER }

\* the answers to a DELIVER line when the checks are made in the order of the
\* claim and the first failing one decides
DeliverAnswers(line) ==
    LET n == IF Len(line) >= 2 /\ line[2] = CARBON THEN 4 ELSE 3
    IN  IF Len(line) < 2 THEN { "ERROR: invalid command\n" }
        ELSE IF line[1] # DELIVER THEN { "ERROR: invalid command\n" }
        ELSE IF line[2] = CARBON /\ (Len(line) < 3 \/ line[3] # DIOXIDE)
        THEN { "ERROR: invalid molecule type\n" }
        ELSE IF line[2] \notin { CARBON, WATER, GLUCOSE, ALCOHOL }
        THEN { "ERROR: invalid molecule type\n" }
        ELSE IF Len(line) < n THEN { "ERROR: missing number\n" }
        ELSE IF Len(line) > n THEN { "ERROR: too many arguments\n" }
        ELSE IF ~IsUnsigned(line[n]) THEN { "ERROR: invalid number\n" }
        ELSE IF Above1e18(line[n]) THEN { "ERROR: number too large\n" }
        ELSE AfterValidation

\* a DELIVER line has been parsed and its reply is ready
DeliverAnswered == cur[1].fd = "UDP" /\ pc[1] = "send"

\* C30: the reply to a DELIVER line is the error of the first failing check
\* in the order: command or molecule missing, command not DELIVER, CARBON
\* without DIOXIDE or unknown molecule, no quantity, a token after the
\* quantity, quantity not an unsigned integer, quantity above 10^18; a line
\* passing all of them is answered by the insufficiency checks.
C30_DeliverChecksInOrder ==
    DeliverAnswered => response[1].fmt \in DeliverAnswers(cur[1].line)

\* what does hold: the same order when the quantity does not start with a sign
C30_UnsignedChecksInOrder ==
    DeliverAnswered /\ (\A i \in 1 .. Len(cur[1].line) : cur[1].line[i][1] \notin { "+", "-" }) =>
        response[1].fmt \in DeliverAnswers(cur[1].line)

\* lines failing several checks have been answered with the earliest error
C30_SeveralFail ==
    /\ DeliverAnswered
    /\ cur[1].line = << DELIVER, CARBON, DIOXIDE, N1e19, EXTRA >>
    /\ response[1] = Error("ERROR: too many arguments\n")

\* DELIVER WATER -1 has been answered
C30_SignedQuantity ==
    /\ DeliverAnswered
    /\ cur[1].line = << DELIVER, WATER, NMinus1 >>
    /\ response[1] = Error("ERROR: number too large\n")

\* DELIVER WATER -18446744073709551615 has delivered one WATER
C30_SignedQuantityDelivered ==
    /\ DeliverAnswered
    /\ cur[1].line = << DELIVER, WATER, NMinus2e64Plus1 >>
    /\ response[1].fmt = OK_DELIVER
    /\ atom_stock[1].oxygen = Sub64(evaluated[1].oxygen, << 0, 0, 1 >>)

----------------------------------------------------------------------------
(* C31  which element a refused DELIVER names                              *)

\* the elements of which the stock holds less than the need
ShortOf(stock, need) ==
    (IF LtN(stock.carbon, need.carbon) THEN { "carbon" } ELSE { })
        \cup (IF LtN(stock.oxygen, need.oxygen) THEN { "oxygen" } ELSE { })
        \cup (IF LtN(stock.hydrogen, need.hydrogen) THEN { "hydrogen" } ELSE { })

\* the first of the elements in the order carbon, oxygen, hydrogen
FirstShort(short) ==
    IF "carbon" \in short THEN "ERROR: not enough carbon atoms\n"
    ELSE IF "oxygen" \in short THEN "ERROR: not enough oxygen atoms\n"
    ELSE "ERROR: not enough hydrogen atoms\n"

\* C31: a DELIVER that reaches the stock checks while the inventory is short
\* of two or three elements is answered with the error of the first of them
\* in the order carbon, oxygen, hydrogen, and the three counters stay those
\* the command was evaluated on.
C31_FirstShortElementNamed ==
    \A p \in Servers :
        Replying(p) /\ ReachedStockCheck(p) =>
            LET short == ShortOf(evaluated[p], Need(cur[p].line, parsed[p].count))
            IN  Cardinality(short) > 1 =>
                    /\ response[p] = Error(FirstShort(short))
                    /\ atom_stock[p] = evaluated[p]
                    /\ ~parsed[p].ok

\* a WATER asked of an inventory with neither oxygen nor hydrogen: carbon is
\* not short, and oxygen is named
C31_Witness ==
    \E p \in Servers :
        /\ Replying(p) /\ ReachedStockCheck(p)
        /\ ShortOf(evaluated[p], Need(cur[p].line, parsed[p].count)) = { "oxygen", "hydrogen" }
        /\ response[p] = Error("ERROR: not enough oxygen atoms\n")

\* a GLUCOSE asked of an inventory short of all three: carbon is named
C31_AllShort ==
    \E p \in Servers :
        /\ Replying(p) /\ ReachedStockCheck(p)
        /\ ShortOf(evaluated[p], Need(cur[p].line, parsed[p].count))
               = { "carbon", "oxygen", "hydrogen" }
        /\ response[p] = Error("ERROR: not enough carbon atoms\n")

----------------------------------------------------------------------------
(* C32  when a session ends                                                *)

\* the read of the session in slot n returned 0 or failed in this step
ReadEnded(n) == SessionDispatch /\ slot = n /\ io'.parses = 0

\* section 10.1 accepts a connection in this step
Accepts ==
    /\ at = "tcp_listen" /\ at' # at
    /\ tcp_listen_fd \in read_fds
    /\ new_fd' # -1

\* C32: in every step, the slot of a session changes, and its descriptor is
\* closed, exactly when the read of section 10.3 on that session returned 0
\* or failed; the slot then holds -1 and no other slot changes; a step that
\* parsed and answered a line leaves the table and the open descriptors as
\* they were; and an accept stores its descriptor in the first slot holding
\* -1, a freed one included.
C32_ClosedOnlyOnFailedRead ==
    [][\A n \in 1 .. MAX_CLIENTS :
          /\ client_fds[n] # -1 =>
                /\ client_fds'[n] # client_fds[n] <=> ReadEnded(n)
                /\ client_fds[n] \notin open_fds' <=> ReadEnded(n)
          /\ ReadEnded(n) =>
                /\ client_fds'[n] = -1
                /\ \A m \in 1 .. MAX_CLIENTS : m # n => client_fds'[m] = client_fds[m]
          /\ SessionDispatch /\ io'.parses = 1 =>
                client_fds' = client_fds /\ open_fds' = open_fds
          /\ Accepts /\ FirstEmpty(client_fds) = n =>
                /\ client_fds'[n] = new_fd' /\ new_fd' \in open_fds'
                /\ \A m \in 1 .. MAX_CLIENTS : m # n => client_fds'[m] = client_fds[m]]_vars

\* the first slot, which only a failed read can have freed while the last
\* holds a session, has been given to the connection just accepted
C32_Witness ==
    /\ at = "udp"
    /\ new_fd # -1
    /\ client_fds[1] = new_fd
    /\ client_fds[MAX_CLIENTS] # -1

\* a session has just been answered and is still in its slot
C32_AnsweredStays ==
    /\ at \in { "clients", "stdin" }
    /\ io.fd = "TCP" /\ io.parses = 1
    /\ \E n \in 1 .. MAX_CLIENTS : client_fds[n] # -1 /\ io.replies[1].fd = client_fds[n]

----------------------------------------------------------------------------
(* C33  a write error on a session                                         *)

\* C33: when send fails on the descriptor of a session, the step frees the
\* slot of that session, closes its descriptor and changes no other slot.
C33_WriteErrorEndsSession ==
    [][SessionDispatch /\ io'.sent = "error" =>
          /\ client_fds'[slot] = -1
          /\ client_fds[slot] \notin open_fds'
          /\ \A m \in 1 .. MAX_CLIENTS : m # slot => client_fds'[m] = client_fds[m]]_vars

\* what the loop does on a failed send: the error is reported, the session
\* stays in its slot with its descriptor open and the loop goes on; when the
\* failure is the signal of a peer that is gone, the process is terminated
C33_WriteErrorKeepsSession ==
    [][SessionDispatch /\ io'.sent \in { "error", "SIGPIPE" } =>
          /\ client_fds' = client_fds
          /\ open_fds' = open_fds
          /\ (io'.sent = "error") => at' \in { "clients", "stdin" }
          /\ (io'.sent = "SIGPIPE") => at' = "killed"]_vars

\* a reply could not be written and its session is still in the table
C33_SessionKept ==
    /\ io.fd = "TCP" /\ io.sent = "error"
    /\ at \in { "clients", "stdin" }
    /\ \E n \in 1 .. MAX_CLIENTS :
          client_fds[n] = io.replies[1].fd /\ client_fds[n] \in open_fds

----------------------------------------------------------------------------
(* C34  a command sees what the other server saved                         *)

\* server p takes an ADD or a DELIVER off one of its four sockets in this step
CommandStarts(p) ==
    /\ pc[p] = "select" /\ pc'[p] # "select"
    /\ cur'[p].fd \in { "TCP", "UDP", "UDS_STREAM", "UDS_DGRAM" }

\* C34: in SpecShared, a save of server q leaves in the file exactly q's
\* counters; the file changes in no step other than a save or a startup; and
\* a command server p starts is evaluated on the counters the file holds at
\* that moment, whatever p has in memory: so a command that starts after the
\* save of the other server is evaluated on that server's counters.
C34_SeesOtherServersSave ==
    [][\A p \in Servers :
          /\ Saves(p) => file' = Image(atom_stock[p]) /\ atom_stock'[p] = atom_stock[p]
          /\ CommandStarts(p) =>
                /\ file.exists /\ file.full
                /\ evaluated'[p] = file.data
                /\ file' = file
          /\ file' # file => \E r \in Servers : Saves(r) \/ pc[r] = "start"]_vars

\* server p is answering a request read from fd, evaluated on counters that
\* are not those it had in memory but those of the other server, which has
\* finished its own command
SawOthersSave(p, fd) ==
    /\ Replying(p) /\ cur[p].fd = fd
    /\ evaluated[p] # before[p]
    /\ \E q \in Servers \ { p } :
          /\ pc[q] = "select"
          /\ atom_stock[q] = evaluated[p]
          /\ atom_stock[q] # before[p]

C34_Witness == \E p \in Servers : SawOthersSave(p, "UDS_DGRAM")
C34_OnTcp == \E p \in Servers : SawOthersSave(p, "TCP")
C34_OnUdp == \E p \in Servers : SawOthersSave(p, "UDP")
C34_OnUdsStream == \E p \in Servers : SawOthersSave(p, "UDS_STREAM")

----------------------------------------------------------------------------
(* C35  a rejected command saves nothing                                   *)

\* C35: a server writes the backing file during a command only when that
\* command's mutation succeeded.
C35_RejectedCommandSavesNothing ==
    [][\A p \in Servers : Saves(p) => parsed[p].ok]_vars

\* what holds: on TCP, UDP and UDS stream only an accepted command saves; on
\* UDS datagram every command saves, accepted or not
C35_SavesByTransport ==
    [][\A p \in Servers :
          /\ Saves(p) /\ cur[p].fd # "UDS_DGRAM" => parsed[p].ok
          /\ CommandStarts(p) /\ cur'[p].fd = "UDS_DGRAM" =>
                pc'[p] \in { "save", "dgram_save" }]_vars

\* server p rejected a datagram on the UDS socket and then saved the counters
\* it had reloaded, over the snapshot server q committed in between: q is
\* about to answer OK with counters the file no longer holds
C35_CommittedSnapshotOverwritten ==
    \E p, q \in Servers :
        /\ p # q
        /\ Replying(p) /\ cur[p].fd = "UDS_DGRAM" /\ ~parsed[p].ok
        /\ saved[p] # << >>
        /\ Replying(q) /\ parsed[q].ok /\ saved[q] # << >>
        /\ atom_stock[q] # evaluated[q]
        /\ file = Image(evaluated[p])
        /\ file.data # atom_stock[q]

----------------------------------------------------------------------------
(* C36  what the console answers to a line it does not accept              *)

\* returns of select in one run of the loop whose console is followed
MaxConsoleWakeups == 1

\* what is typed at that console, byte by byte
Typed ==
    { << "\n" >>,
      << " ", "\t", "\n" >>,
      << "g", "e", "n" >> \o << " " >> \o VODKA \o << "\n" >>,
      VODKA \o << "\n" >>,
      GEN \o << "\r", "\n" >>,
      GEN \o << "\n" >>,
      << "\t" >> \o GEN \o << " ", "\n" >>,
      GEN \o << " " >> \o SOFT \o << "\n" >>,
      GEN \o << " " >> \o SOFT \o << " " >> \o WATER \o << "\n" >>,
      GEN \o << " " >> \o SOFT \o << "\t" >> \o DRINK \o << "\n" >>,
      GEN \o << " " >> \o WATER \o << "\n" >>,
      GEN \o << " " >> \o << "v", "o", "d", "k", "a" >> \o << "\n" >>,
      GEN \o << " " >> \o DRINK \o << " " >> \o SOFT \o << "\n" >>,
      GEN \o << " " >> \o VODKA }

\* the lines of that console as strtok cuts them
TypedLines == { strtok(chars) : chars \in Typed }

InitConsole == InitServers /\ file = Absent /\ cmds = MaxConsoleWakeups

NextConsole ==
    \/ LoopStart
    \/ Top
    \/ EnterSelect
    \/ SelectReturns
    \/ Tick
    \/ Alarm
    \/ TcpListen
    \/ Udp
    \/ Clients
    \/ StdinReads(TypedLines)
    \/ UdsStream
    \/ UdsRecv
    \/ PeerActs
    \/ UdsDgram
    \/ Cleanup

\* one server, every step of its loop, and the console typed at
SpecConsole == InitConsole /\ [][NextConsole]_vars

\* section 10.4 reads a line from the console in this step
ConsoleLineRead ==
    /\ at = "stdin" /\ at' # at
    /\ STDIN_FILENO \in read_fds
    /\ io'.parses = 1

\* C36: when section 10.4 reads a line, then: if the line has no token or its
\* first token is not GEN, the answer is 'invalid console command'; if GEN is
\* its only token, 'missing drink type after GEN'; if its second token is SOFT
\* and the third is not DRINK, the hint 'did you mean GEN SOFT DRINK'; if its
\* second token is none of SOFT, VODKA, CHAMPAGNE, 'unknown drink type' with
\* that token; and in each of these cases the loop goes on to section 10.5
\* with the inventory as the load left it.
C36_ConsoleValidation ==
    [][ConsoleLineRead =>
          LET line   == cur'[1].line
              answer == response'[1]
              first  == Token(line, 1)
              second == Token(line, 2)
              third  == Token(line, 3)
              refused ==
                  \/ first # GEN
                  \/ second \notin { VODKA, CHAMPAGNE, SOFT }
                  \/ second = SOFT /\ third # DRINK
          IN  /\ first # GEN =>
                    answer = Error("ERROR: invalid console command\n")
              /\ first = GEN /\ second = NULL =>
                    answer = Error("ERROR: missing drink type after GEN\n")
              /\ first = GEN /\ second = SOFT /\ third # DRINK =>
                    answer = Error("ERROR: did you mean 'GEN SOFT DRINK'?\n")
              /\ first = GEN /\ second # NULL
                   /\ second \notin { VODKA, CHAMPAGNE, SOFT } =>
                    answer = [ fmt |-> "ERROR: unknown drink type '%s'\n",
                               args |-> << second >> ]
              /\ refused =>
                    /\ at' = "uds_stream"
                    /\ reason' = "none"
                    /\ atom_stock'[1] = Reload(file, atom_stock[1]).stock]_vars

\* the console has answered the hint to GEN SOFT WATER and the loop is at the
\* next section
C36_Witness ==
    /\ at = "uds_stream"
    /\ io.fd = "STDIN" /\ io.parses = 1
    /\ cur[1].line = << GEN, SOFT, WATER >>
    /\ response[1] = Error("ERROR: did you mean 'GEN SOFT DRINK'?\n")

\* an empty line, a lowercase gen, GEN alone and an unknown drink have each
\* been answered
C36_EmptyLine ==
    io.fd = "STDIN" /\ io.parses = 1 /\ cur[1].line = << >>
        /\ response[1] = Error("ERROR: invalid console command\n")
C36_Lowercase ==
    io.fd = "STDIN" /\ io.parses = 1 /\ cur[1].line = << << "g", "e", "n" >>, VODKA >>
        /\ response[1] = Error("ERROR: invalid console command\n")
C36_GenAlone ==
    io.fd = "STDIN" /\ io.parses = 1 /\ cur[1].line = << GEN >>
        /\ response[1] = Error("ERROR: missing drink type after GEN\n")
C36_UnknownDrink ==
    io.fd = "STDIN" /\ io.parses = 1 /\ cur[1].line = << GEN, WATER >>
        /\ response[1].args = << WATER >>

----------------------------------------------------------------------------
(* C37  the quantity is digits and nothing else                            *)

\* the quantity token of the line being answered, when the line got as far as
\* the check of its quantity, and NULL when it did not
QuantityToken ==
    LET line == cur[1].line
        n    == IF Len(line) >= 2 /\ line[2] = CARBON THEN 4 ELSE 3
    IN  IF AddAnswered /\ Len(line) >= 3 /\ line[1] = ADD
             /\ line[2] \in { CARBON, OXYGEN, HYDROGEN }
        THEN line[3]
        ELSE IF DeliverAnswered /\ Len(line) = n /\ line[1] = DELIVER
                  /\ (line[2] \in { WATER, GLUCOSE, ALCOHOL }
                        \/ (line[2] = CARBON /\ line[3] = DIOXIDE))
        THEN line[n]
        ELSE NULL

\* C37: an ADD or DELIVER line whose quantity token holds a character that is
\* not a decimal digit is answered 'invalid number' and changes nothing.
C37_OnlyDigitsAccepted ==
    QuantityToken # NULL /\ ~IsUnsigned(QuantityToken) =>
        /\ response[1] = Error("ERROR: invalid number\n")
        /\ atom_stock[1] = evaluated[1]

\* what does hold: the same for a token that does not begin with a sign
C37_UnsignedOnlyDigitsAccepted ==
    QuantityToken # NULL /\ ~IsUnsigned(QuantityToken)
            /\ QuantityToken[1] \notin { "+", "-" } =>
        /\ response[1] = Error("ERROR: invalid number\n")
        /\ atom_stock[1] = evaluated[1]

\* 12x has been refused as a quantity
C37_TrailingLetter ==
    /\ QuantityToken = N12x
    /\ response[1] = Error("ERROR: invalid number\n")

\* ADD OXYGEN +5 has added five oxygen
C37_PlusSignAccepted ==
    /\ AddAnswered
    /\ QuantityToken = NPlus5
    /\ response[1].fmt = OK_ADD
    /\ atom_stock[1].oxygen = Add64(evaluated[1].oxygen, << 0, 0, 5 >>)

\* DELIVER WATER -0 has been served as a delivery of nothing
C37_MinusZeroDelivered ==
    /\ DeliverAnswered
    /\ QuantityToken = NMinus0
    /\ response[1].fmt = OK_DELIVER
    /\ atom_stock[1] = evaluated[1]

----------------------------------------------------------------------------
(* C38  what is read in one iteration                                      *)

\* recv on the connection accepted in section 10.5 returns in this step
AcceptedRead == at = "uds_recv" /\ at' # at

\* a stream descriptor is read in this step: a session of the table, or the
\* connection section 10.5 accepted
ReadOf(fd) ==
    \/ SessionDispatch /\ fd = client_fds[slot]
    \/ AcceptedRead /\ fd = new_fd

\* C38: a stream descriptor is read in an iteration only if it was in the set
\* select returned and is not the connection accepted in this iteration
\* (new_fd, which is -1 at the top of each iteration).
C38_NewConnectionNotRead ==
    [][\A fd \in Fds : ReadOf(fd) => fd \in read_fds /\ fd # new_fd]_vars

\* what does hold: the sessions of the table are read only when select
\* reported them, never in the iteration that accepted them, and the slots
\* are visited one after the other, each once; the connection of section
\* 10.5 is read in the iteration that accepted it, whatever select reported
C38_SessionsReadWhenReady ==
    [][/\ SessionDispatch =>
              client_fds[slot] \in read_fds /\ client_fds[slot] # new_fd
       /\ at = "clients" /\ << at, slot >>' # << at, slot >> =>
              \/ at' = "clients" /\ slot' = slot + 1
              \/ at' = "stdin" /\ slot = MAX_CLIENTS
              \/ at' = "killed"
       /\ AcceptedRead => new_fd \in open_fds]_vars

\* the connection section 10.5 has accepted is about to be read in the same
\* iteration
C38_ReadInSameIteration ==
    /\ at = "uds_recv"
    /\ uds_peer = "sent"
    /\ new_fd \in Fds

\* it has the number of a session that select reported, read and closed in
\* section 10.3 of this iteration: the number is read twice
C38_NumberReadTwice ==
    /\ at = "uds_recv"
    /\ uds_peer = "sent"
    /\ new_fd \in read_fds

----------------------------------------------------------------------------
(* C39  one server: the file and the memory agree                          *)

C39_ReloadKeepsDelivery ==
    /\ save_file_path
    /\ InFlight(1)
    /\ prev[1].op = "DELIVER"
    /\ prev[1].req # ZeroStock
    /\ evaluated[1] = Minus(prev[1].before, prev[1].req)

====
